---- MODULE Spec2Model ----
(***************************************************************************)
(* Buildability classifier of test/fuzz/find-repos.py.                     *)
(*                                                                         *)
(* Text is modelled at character level: a Python str is a sequence of      *)
(* one-character strings, so that splitting, stripping, prefix tests and   *)
(* the regular expressions of the source are computed, not assumed.  The   *)
(* three severity emoji are single characters of the alphabet, written     *)
(* RED, YELLOW and GREEN; the em dash of the messages is EMDASH.           *)
(***************************************************************************)
EXTENDS Integers, Sequences, FiniteSets, TLC

(***************************************************************************)
(* Characters and the str methods / regex classes the source relies on.    *)
(***************************************************************************)
RED == "<red>"
YELLOW == "<yellow>"
GREEN == "<green>"
EMDASH == "<emdash>"
NL == "\n"
TAB == "\t"

LowerOf ==
  [A |-> "a", B |-> "b", C |-> "c", D |-> "d", E |-> "e", F |-> "f", G |-> "g",
   H |-> "h", I |-> "i", J |-> "j", K |-> "k", L |-> "l", M |-> "m", N |-> "n",
   O |-> "o", P |-> "p", Q |-> "q", R |-> "r", S |-> "s", T |-> "t", U |-> "u",
   V |-> "v", W |-> "w", X |-> "x", Y |-> "y", Z |-> "z"]

UpperOf ==
  [a |-> "A", b |-> "B", c |-> "C", d |-> "D", e |-> "E", f |-> "F", g |-> "G",
   h |-> "H", i |-> "I", j |-> "J", k |-> "K", l |-> "L", m |-> "M", n |-> "N",
   o |-> "O", p |-> "P", q |-> "Q", r |-> "R", s |-> "S", t |-> "T", u |-> "U",
   v |-> "V", w |-> "W", x |-> "X", y |-> "Y", z |-> "Z"]

Digits == {"0", "1", "2", "3", "4", "5", "6", "7", "8", "9"}

\* \s of the re module, restricted to the alphabet of the model
IsSpace(c) == c \in {" ", TAB, NL}

\* \d
IsDigit(c) == c \in Digits

\* \w
IsWord(c) == c \in (DOMAIN LowerOf) \cup (DOMAIN UpperOf) \cup Digits \cup {"_"}

lowerChar(c) == IF c \in DOMAIN LowerOf THEN LowerOf[c] ELSE c

upperChar(c) == IF c \in DOMAIN UpperOf THEN UpperOf[c] ELSE c

\* str.lower()
lower(s) == [k \in 1..Len(s) |-> lowerChar(s[k])]

\* str.upper()
upper(s) == [k \in 1..Len(s) |-> upperChar(s[k])]

\* p occurs in s at position k (1-based)
OccursAt(s, p, k) ==
  /\ k >= 1
  /\ k + Len(p) - 1 <= Len(s)
  /\ \A j \in 1..Len(p) : s[k + j - 1] = p[j]

\* the same, ignoring letter case (re.IGNORECASE on a literal)
OccursAtI(s, p, k) ==
  /\ k >= 1
  /\ k + Len(p) - 1 <= Len(s)
  /\ \A j \in 1..Len(p) : lowerChar(s[k + j - 1]) = lowerChar(p[j])

\* str.startswith
startswith(s, p) == OccursAt(s, p, 1)

\* str.endswith
endswith(s, p) == OccursAt(s, p, Len(s) - Len(p) + 1)

\* the <<"i","n">> operator on two strings
contains(s, p) == \E k \in 1..(Len(s) + 1) : OccursAt(s, p, k)

\* position after the run of whitespace starting at k
RECURSIVE SkipSpace(_, _)
SkipSpace(s, k) ==
  IF k <= Len(s) /\ IsSpace(s[k]) THEN SkipSpace(s, k + 1) ELSE k

\* position after the run of non-whitespace starting at k
RECURSIVE SkipNonSpace(_, _)
SkipNonSpace(s, k) ==
  IF k <= Len(s) /\ ~IsSpace(s[k]) THEN SkipNonSpace(s, k + 1) ELSE k

\* str.lstrip()
lstrip(s) == SubSeq(s, SkipSpace(s, 1), Len(s))

RECURSIVE LastNonSpace(_, _)
LastNonSpace(s, k) ==
  IF k >= 1 /\ IsSpace(s[k]) THEN LastNonSpace(s, k - 1) ELSE k

\* str.rstrip()
rstrip(s) == SubSeq(s, 1, LastNonSpace(s, Len(s)))

\* str.strip()
strip(s) == lstrip(rstrip(s))

RECURSIVE SkipChars(_, _, _)
SkipChars(s, cs, k) ==
  IF k <= Len(s) /\ s[k] \in cs THEN SkipChars(s, cs, k + 1) ELSE k

RECURSIVE LastNotIn(_, _, _)
LastNotIn(s, cs, k) ==
  IF k >= 1 /\ s[k] \in cs THEN LastNotIn(s, cs, k - 1) ELSE k

\* str.strip(chars): removes every leading and trailing character of the set
stripChars(s, cs) ==
  LET a == SkipChars(s, cs, 1)
  IN  SubSeq(s, a, LastNotIn(s, cs, Len(s)))

\* str.rstrip(chars)
rstripChars(s, cs) == SubSeq(s, 1, LastNotIn(s, cs, Len(s)))

\* str.split(): the whitespace-separated words, none of them empty
RECURSIVE SplitFrom(_, _)
SplitFrom(s, k) ==
  LET a == SkipSpace(s, k)
      b == SkipNonSpace(s, a)
  IN  IF a > Len(s) THEN <<>> ELSE <<SubSeq(s, a, b - 1)>> \o SplitFrom(s, b)

split(s) == SplitFrom(s, 1)

\* position of the first c at or after k, Len(s)+1 when there is none
RECURSIVE FindChar(_, _, _)
FindChar(s, c, k) ==
  IF k <= Len(s) /\ s[k] # c THEN FindChar(s, c, k + 1) ELSE k

\* str.split(sep) for a one-character sep: always at least one piece
RECURSIVE SplitSepFrom(_, _, _)
SplitSepFrom(s, c, k) ==
  LET e == FindChar(s, c, k)
  IN  IF e > Len(s) THEN <<SubSeq(s, k, Len(s))>>
      ELSE <<SubSeq(s, k, e - 1)>> \o SplitSepFrom(s, c, e + 1)

splitSep(s, c) == SplitSepFrom(s, c, 1)

\* str.split(sep, 1)
splitSep1(s, c) ==
  LET e == FindChar(s, c, 1)
  IN  IF e > Len(s) THEN <<s>> ELSE <<SubSeq(s, 1, e - 1), SubSeq(s, e + 1, Len(s))>>

\* str.splitlines(), line ends being "\n" in the alphabet of the model
RECURSIVE SplitLinesFrom(_, _)
SplitLinesFrom(s, k) ==
  LET e == FindChar(s, NL, k)
  IN  IF k > Len(s) THEN <<>>
      ELSE IF e > Len(s) THEN <<SubSeq(s, k, Len(s))>>
      ELSE <<SubSeq(s, k, e - 1)>> \o SplitLinesFrom(s, e + 1)

splitlines(s) == SplitLinesFrom(s, 1)

\* sep.join(xs)
RECURSIVE join(_, _)
join(sep, xs) ==
  IF Len(xs) = 0 THEN <<>>
  ELSE IF Len(xs) = 1 THEN xs[1]
  ELSE xs[1] \o sep \o join(sep, Tail(xs))

\* re.match(r'^\s*KW\s', line, re.IGNORECASE)
MatchInstr(line, kw) ==
  LET a == SkipSpace(line, 1)
  IN  /\ OccursAtI(line, kw, a)
      /\ a + Len(kw) <= Len(line)
      /\ IsSpace(line[a + Len(kw)])

\* re.match(r'^\s*KW\s+FLAG', line, re.IGNORECASE)
MatchInstrFlag(line, kw, flag) ==
  /\ MatchInstr(line, kw)
  /\ OccursAtI(line, flag, SkipSpace(line, SkipSpace(line, 1) + Len(kw)))

\* re.search(r'KW\s+FLAG', line, re.IGNORECASE)
SearchInstrFlag(line, kw, flag) ==
  \E k \in 1..Len(line) :
    /\ OccursAtI(line, kw, k)
    /\ k + Len(kw) <= Len(line)
    /\ IsSpace(line[k + Len(kw)])
    /\ OccursAtI(line, flag, SkipSpace(line, k + Len(kw)))

(***************************************************************************)
(* Dockerfile quality analysis: analyze_dockerfile and its sections.       *)
(***************************************************************************)
max2(a, b) == IF a >= b THEN a ELSE b

min2(a, b) == IF a <= b THEN a ELSE b

\* code-point order of the characters sorted() can meet here (\w, lowered or not)
CodeOrder ==
  <<"0", "1", "2", "3", "4", "5", "6", "7", "8", "9",
    "A", "B", "C", "D", "E", "F", "G", "H", "I", "J", "K", "L", "M",
    "N", "O", "P", "Q", "R", "S", "T", "U", "V", "W", "X", "Y", "Z", "_",
    "a", "b", "c", "d", "e", "f", "g", "h", "i", "j", "k", "l", "m",
    "n", "o", "p", "q", "r", "s", "t", "u", "v", "w", "x", "y", "z">>

ord(c) == CHOOSE k \in 1..Len(CodeOrder) : CodeOrder[k] = c

\* a < b for two strings (Python's str ordering)
RECURSIVE lessStr(_, _, _)
lessStr(a, b, k) ==
  IF k > Len(a) THEN k <= Len(b)
  ELSE IF k > Len(b) THEN FALSE
  ELSE IF a[k] = b[k] THEN lessStr(a, b, k + 1)
  ELSE ord(a[k]) < ord(b[k])

\* sorted(set of strings)
RECURSIVE sorted(_)
sorted(S) ==
  IF S = {} THEN <<>>
  ELSE LET m == CHOOSE x \in S : \A y \in S \ {x} : lessStr(x, y, 1)
       IN  <<m>> \o sorted(S \ {m})

BUILD_ARTIFACT_DIRS ==
  {<<"d","i","s","t">>, <<"b","u","i","l","d">>, <<"o","u","t">>, <<"t","a","r","g","e","t">>, <<".","n","e","x","t">>, <<"o","u","t","p","u","t">>, <<"a","r","t","i","f","a","c","t","s">>}

from_lines(lines) == SelectSeq(lines, LAMBDA l : MatchInstr(l, <<"F","R","O","M">>))

\* the image named by one FROM line; <<>> stands for None (both are falsy)
RECURSIVE FromImage(_, _)
FromImage(parts, k) ==
  IF k > Len(parts) THEN <<>>
  ELSE IF startswith(parts[k], <<"-","-">>) THEN FromImage(parts, k + 1)
  ELSE IF upper(parts[k]) = <<"A","S">> THEN <<>>
  ELSE parts[k]

RECURSIVE BaseImagesOf(_)
BaseImagesOf(fls) ==
  IF Len(fls) = 0 THEN <<>>
  ELSE LET img == FromImage(split(fls[1]), 2)
       IN  (IF Len(img) > 0 /\ ~startswith(img, <<"$">>) THEN <<img>> ELSE <<>>)
             \o BaseImagesOf(Tail(fls))

base_images(lines) == BaseImagesOf(from_lines(lines))

has_multi_stage(lines) == Len(from_lines(lines)) > 1

has_builder_stage(lines) ==
  \E k \in 1..Len(from_lines(lines)) :
    LET fl == from_lines(lines)[k]
    IN  contains(upper(fl), <<" ","A","S"," ">>) \/ contains(fl, <<" ","a","s"," ">>)

copy_lines(lines) ==
  SelectSeq(lines, LAMBDA l : MatchInstr(l, <<"C","O","P","Y">>)
                              /\ ~MatchInstrFlag(l, <<"C","O","P","Y">>, <<"-","-","f","r","o","m","=">>))

\* src.strip("./").split("/"): the pieces whose first one is src_dir
src_pieces(src) == splitSep(stripChars(src, {".", "/"}), "/")

\* src.strip("./").split("/")[0]
src_dir(src) == src_pieces(src)[1]

\* every src of <<"f","o","r"," ","c","l"," ","i","n"," ","c","o","p","y","_","l","i","n","e","s",":"," ","f","o","r"," ","s","r","c"," ","i","n"," ","p","a","r","t","s","[","1",":","-","1","]">>, in loop order
RECURSIVE PlainCopySources(_)
PlainCopySources(cls) ==
  IF Len(cls) = 0 THEN <<>>
  ELSE LET parts == split(cls[1])
       IN  SubSeq(parts, 2, Len(parts) - 1) \o PlainCopySources(Tail(cls))

\* the src_dir of every such source that is an artifact directory
ArtifactHits(srcs) ==
  SelectSeq([k \in 1..Len(srcs) |-> src_dir(srcs[k])],
            LAMBDA d : d \in BUILD_ARTIFACT_DIRS)

artifact_hits(lines) == ArtifactHits(PlainCopySources(copy_lines(lines)))

copies_artifacts(lines) == Len(artifact_hits(lines)) > 0

copy_from_lines(lines) ==
  SelectSeq(lines, LAMBDA l : MatchInstrFlag(l, <<"C","O","P","Y">>, <<"-","-","f","r","o","m","=">>))

\* fault: the aliased-copy reward ignores the artifact violation
proper_multi_stage_any(lines) == Len(copy_from_lines(lines)) > 0

\* <<"i","f"," ","c","o","p","y","_","f","r","o","m","_","l","i","n","e","s"," ","a","n","d"," ","n","o","t"," ","c","o","p","i","e","s","_","a","r","t","i","f","a","c","t","s">>
proper_multi_stage(lines) ==
  Len(copy_from_lines(lines)) > 0 /\ ~copies_artifacts(lines)

run_lines(lines) == SelectSeq(lines, LAMBDA l : MatchInstr(l, <<"R","U","N">>))

run_text(lines) == lower(join(<<" ">>, run_lines(lines)))

has_install(lines) ==
  \E pm \in {<<"n","p","m"," ","i","n","s","t","a","l","l">>, <<"n","p","m"," ","c","i">>, <<"y","a","r","n"," ","i","n","s","t","a","l","l">>, <<"p","n","p","m"," ","i","n","s","t","a","l","l">>,
             <<"p","i","p"," ","i","n","s","t","a","l","l">>, <<"p","o","e","t","r","y"," ","i","n","s","t","a","l","l">>, <<"g","o"," ","b","u","i","l","d">>, <<"g","o"," ","m","o","d">>,
             <<"c","a","r","g","o"," ","b","u","i","l","d">>, <<"m","v","n"," ">>, <<"g","r","a","d","l","e">>, <<"d","o","t","n","e","t"," ","r","e","s","t","o","r","e">>,
             <<"b","u","n","d","l","e"," ","i","n","s","t","a","l","l">>, <<"c","o","m","p","o","s","e","r"," ","i","n","s","t","a","l","l">>, <<"m","i","x"," ","d","e","p","s",".","g","e","t">>} :
    contains(run_text(lines), pm)

\* re.match(r'(\d+)', token): the leading digits, <<>> when there are none
leading_digits(token) == SubSeq(token, 1, SkipChars(token, Digits, 1) - 1)

RECURSIVE ExposePortsOf(_)
ExposePortsOf(ls) ==
  IF Len(ls) = 0 THEN <<>>
  ELSE LET toks == Tail(split(ls[1]))
           nums == [k \in 1..Len(toks) |-> leading_digits(toks[k])]
       IN  SelectSeq(nums, LAMBDA d : Len(d) > 0) \o ExposePortsOf(Tail(ls))

expose_ports(lines) ==
  ExposePortsOf(SelectSeq(lines, LAMBDA l : MatchInstr(l, <<"E","X","P","O","S","E">>)))

has_cmd(lines) ==
  \E k \in 1..Len(lines) :
    MatchInstr(lines[k], <<"C","M","D">>) \/ MatchInstr(lines[k], <<"E","N","T","R","Y","P","O","I","N","T">>)

\* the base images that are neither allowlisted nor path-less nor ghcr/quay
nonstandard_images(lines) ==
  SelectSeq(base_images(lines), LAMBDA img :
    /\ ~\E r \in {<<"n","o","d","e",":">>, <<"p","y","t","h","o","n",":">>, <<"g","o","l","a","n","g",":">>, <<"r","u","b","y",":">>, <<"p","h","p",":">>, <<"r","u","s","t",":">>,
                  <<"o","p","e","n","j","d","k",":">>, <<"a","m","a","z","o","n","c","o","r","r","e","t","t","o",":">>, <<"e","c","l","i","p","s","e","-","t","e","m","u","r","i","n",":">>, <<"m","a","v","e","n",":">>,
                  <<"g","r","a","d","l","e",":">>, <<"m","c","r",".","m","i","c","r","o","s","o","f","t",".","c","o","m","/">>, <<"d","o","c","k","e","r",".","i","o","/">>, <<"n","g","i","n","x",":">>,
                  <<"a","l","p","i","n","e",":">>, <<"u","b","u","n","t","u",":">>, <<"d","e","b","i","a","n",":">>, <<"c","e","n","t","o","s",":">>, <<"f","e","d","o","r","a",":">>,
                  <<"e","l","i","x","i","r",":">>, <<"c","o","m","p","o","s","e","r",":">>, <<"d","o","t","n","e","t","/">>, <<"s","c","r","a","t","c","h">>} :
          startswith(img, r)
    /\ contains(img, <<"/">>)
    /\ ~(startswith(img, <<"g","h","c","r",".","i","o","/">>) \/ startswith(img, <<"q","u","a","y",".","i","o","/">>)))

\* the four fixable patterns: yellow flags only
fixable_flags(content, lines) ==
  (IF contains(run_text(lines), <<"p","o","e","t","r","y"," ","i","n","s","t","a","l","l">>)
        /\ ~contains(run_text(lines), <<"-","-","n","o","-","r","o","o","t">>)
     THEN <<<<YELLOW," ","p","o","e","t","r","y"," ","i","n","s","t","a","l","l"," ","w","i","t","h","o","u","t"," ","-","-","n","o","-","r","o","o","t"," ","(","f","i","x","a","b","l","e"," ","v","i","a"," ","p","a","t","c","h",")">>>> ELSE <<>>)
  \o
  (IF \E v \in {<<"T","A","R","G","E","T","A","R","C","H">>, <<"B","U","I","L","D","P","L","A","T","F","O","R","M">>, <<"T","A","R","G","E","T","P","L","A","T","F","O","R","M">>} :
          contains(content, <<"$","{">> \o v \o <<"}">>) \/ contains(content, <<"$">> \o v)
     THEN <<<<YELLOW," ","B","u","i","l","d","K","i","t"," ","p","l","a","t","f","o","r","m"," ","A","R","G","s"," ","(","f","i","x","a","b","l","e"," ","v","i","a"," ","p","a","t","c","h",")">>>> ELSE <<>>)
  \o
  (IF contains(run_text(lines), <<"g","o"," ","b","u","i","l","d">>)
        /\ ~contains(run_text(lines), <<"-","b","u","i","l","d","v","c","s","=","f","a","l","s","e">>)
     THEN <<<<YELLOW," ","g","o"," ","b","u","i","l","d"," ","w","i","t","h","o","u","t"," ","-","b","u","i","l","d","v","c","s","=","f","a","l","s","e"," ","(","f","i","x","a","b","l","e"," ","v","i","a"," ","p","a","t","c","h",")">>>> ELSE <<>>)
  \o
  (IF (\E npm \in {<<"n","p","m"," ","i","n","s","t","a","l","l">>, <<"n","p","m"," ","c","i">>, <<"n","p","m"," ","r","u","n">>} :
          contains(run_text(lines), npm))
        /\ ~contains(content, <<"n","p","m","_","c","o","n","f","i","g","_","c","a","c","h","e">>)
     THEN <<<<YELLOW," ","n","p","m"," ","w","i","t","h","o","u","t"," ","c","a","c","h","e"," ","r","e","d","i","r","e","c","t"," ","(","f","i","x","a","b","l","e"," ","v","i","a"," ","p","a","t","c","h",")">>>> ELSE <<>>)

dockerfile_flags(content) ==
  LET lines == splitlines(content)
      hits == artifact_hits(lines)
      imgs == nonstandard_images(lines)
  IN  (IF has_multi_stage(lines)
         THEN <<<<GREEN," ","m","u","l","t","i","-","s","t","a","g","e"," ","b","u","i","l","d"," ","(","s","e","l","f","-","c","o","n","t","a","i","n","e","d",")">>>> ELSE <<>>)
      \o [k \in 1..Len(hits) |->
            <<RED," ","C","O","P","Y"," ","f","r","o","m"," ","'">> \o hits[k] \o <<"/","'"," ",EMDASH," ","l","i","k","e","l","y"," ","r","e","q","u","i","r","e","s"," ","p","r","e","-","b","u","i","l","d"," ","s","t","e","p">>]
      \o (IF proper_multi_stage(lines)
            THEN <<<<GREEN," ","u","s","e","s"," ","C","O","P","Y"," ","-","-","f","r","o","m","="," ","(","p","r","o","p","e","r"," ","m","u","l","t","i","-","s","t","a","g","e",")">>>> ELSE <<>>)
      \o (IF has_install(lines)
            THEN <<<<GREEN," ","h","a","s"," ","d","e","p","e","n","d","e","n","c","y"," ","i","n","s","t","a","l","l"," ","s","t","e","p">>>> ELSE <<>>)
      \o (IF Len(expose_ports(lines)) > 0
            THEN <<<<GREEN," ","E","X","P","O","S","E"," ">> \o join(<<","," ">>, expose_ports(lines))>> ELSE <<>>)
      \o (IF has_cmd(lines) THEN <<>> ELSE <<<<YELLOW," ","n","o"," ","C","M","D","/","E","N","T","R","Y","P","O","I","N","T">>>>)
      \o fixable_flags(content, lines)
      \o [k \in 1..Len(imgs) |-> <<YELLOW," ","n","o","n","-","s","t","a","n","d","a","r","d"," ","b","a","s","e"," ","i","m","a","g","e",":"," ">> \o imgs[k]]

\* fault: the artifact penalty is taken once, not per source
running_score_flat_penalty(content) ==
  LET lines == splitlines(content)
  IN  50
      + (IF has_multi_stage(lines) THEN 15 ELSE 0)
      + (IF has_builder_stage(lines) THEN 5 ELSE 0)
      - (IF copies_artifacts(lines) THEN 30 ELSE 0)
      + (IF proper_multi_stage(lines) THEN 5 ELSE 0)
      + (IF has_install(lines) THEN 10 ELSE 0)
      + (IF Len(expose_ports(lines)) > 0 THEN 5 ELSE 0)
      + (IF has_cmd(lines) THEN 5 ELSE -5)
      - 5 * Len(nonstandard_images(lines))

\* the running total of analyze_dockerfile before it is clamped
running_score(content) ==
  LET lines == splitlines(content)
  IN  50
      + (IF has_multi_stage(lines) THEN 15 ELSE 0)
      + (IF has_builder_stage(lines) THEN 5 ELSE 0)
      - 30 * Len(artifact_hits(lines))
      + (IF proper_multi_stage(lines) THEN 5 ELSE 0)
      + (IF has_install(lines) THEN 10 ELSE 0)
      + (IF Len(expose_ports(lines)) > 0 THEN 5 ELSE 0)
      + (IF has_cmd(lines) THEN 5 ELSE -5)
      - 5 * Len(nonstandard_images(lines))

\* fault: the final clamp is left out
dockerfile_score_noclamp(content) == running_score(content)

\* "score": max(0, min(100, score))
dockerfile_score(content) == max2(0, min2(100, running_score(content)))

\* re.search(r'--mount=type=(secret|cache|ssh)', l, re.IGNORECASE)
has_buildkit_mount(l) ==
  \E k \in 1..Len(l) :
    /\ OccursAtI(l, <<"-","-","m","o","u","n","t","=","t","y","p","e","=">>, k)
    /\ \E t \in {<<"s","e","c","r","e","t">>, <<"c","a","c","h","e">>, <<"s","s","h">>} : OccursAtI(l, t, k + 13)

RECURSIVE SkipWord(_, _)
SkipWord(s, k) ==
  IF k <= Len(s) /\ IsWord(s[k]) THEN SkipWord(s, k + 1) ELSE k

\* re.search(r'--mount=type=(\w+)', ml, re.IGNORECASE).group(1).lower():
\* the leftmost match only; <<>> when there is no match
mount_type(ml) ==
  LET ks == {k \in 1..Len(ml) :
               /\ OccursAtI(ml, <<"-","-","m","o","u","n","t","=","t","y","p","e","=">>, k)
               /\ k + 13 <= Len(ml)
               /\ IsWord(ml[k + 13])}
  IN  IF ks = {} THEN <<>>
      ELSE LET k == CHOOSE x \in ks : \A y \in ks : x <= y
           IN  lower(SubSeq(ml, k + 13, SkipWord(ml, k + 13) - 1))

mount_types(lines) ==
  LET mls == SelectSeq(lines, has_buildkit_mount)
  IN  {mount_type(mls[k]) : k \in 1..Len(mls)} \ {<<>>}

\* re.search(r'https?://', l)
has_url(l) ==
  \E k \in 1..Len(l) : OccursAt(l, <<"h","t","t","p",":","/","/">>, k) \/ OccursAt(l, <<"h","t","t","p","s",":","/","/">>, k)

first_from_idx(lines) ==
  LET ks == {k \in 1..Len(lines) : MatchInstr(lines[k], <<"F","R","O","M">>)}
  IN  IF ks = {} THEN Len(lines) + 1 ELSE CHOOSE x \in ks : \A y \in ks : x <= y

\* fault: the HEALTHCHECK gap is appended once per matching line
dockerfile_edge_cases_per_line(lines) ==
  LET hc == SelectSeq(lines, LAMBDA l : MatchInstr(l, <<"H","E","A","L","T","H","C","H","E","C","K">>))
  IN  [k \in 1..Len(hc) |->
         [id |-> "healthcheck",
          desc |-> <<"H","E","A","L","T","H","C","H","E","C","K"," ","i","n","s","t","r","u","c","t","i","o","n"," ","i","n"," ","D","o","c","k","e","r","f","i","l","e">>,
          fix |-> "generate.go: map HEALTHCHECK to K8s readinessProbe"]]

\* the pipeline gaps of one Dockerfile, in the order the code appends them
dockerfile_edge_cases(lines) ==
  (IF \E k \in 1..Len(lines) :
          k < first_from_idx(lines) /\ MatchInstr(lines[k], <<"A","R","G">>)
     THEN <<[id |-> "arg-before-from",
             desc |-> <<"A","R","G"," ","b","e","f","o","r","e"," ","F","R","O","M"," ",EMDASH," ","p","a","r","a","m","e","t","e","r","i","s","e","d"," ","b","a","s","e"," ","i","m","a","g","e">>,
             fix |-> "run.sh: resolve ARG default or pass --build-arg"]>>
     ELSE <<>>)
  \o
  (IF \E k \in 1..Len(lines) : MatchInstr(lines[k], <<"H","E","A","L","T","H","C","H","E","C","K">>)
     THEN <<[id |-> "healthcheck",
             desc |-> <<"H","E","A","L","T","H","C","H","E","C","K"," ","i","n","s","t","r","u","c","t","i","o","n"," ","i","n"," ","D","o","c","k","e","r","f","i","l","e">>,
             fix |-> "generate.go: map HEALTHCHECK to K8s readinessProbe"]>>
     ELSE <<>>)
  \o
  (IF \E k \in 1..Len(lines) : has_buildkit_mount(lines[k])
     THEN <<[id |-> "buildkit-mount",
             desc |-> <<"R","U","N"," ","-","-","m","o","u","n","t","=","t","y","p","e","=">> \o join(<<",">>, sorted(mount_types(lines))),
             fix |-> "run.sh: strip --mount flags for Kaniko or emulate with build args"]>>
     ELSE <<>>)
  \o
  (IF \E k \in 1..Len(lines) : MatchInstr(lines[k], <<"A","D","D">>) /\ has_url(lines[k])
     THEN <<[id |-> "add-url",
             desc |-> <<"A","D","D"," ","f","r","o","m"," ","U","R","L"," ",EMDASH," ","n","e","e","d","s"," ","n","e","t","w","o","r","k"," ","d","u","r","i","n","g"," ","b","u","i","l","d">>,
             fix |-> "run.sh: ensure Kaniko has outbound network access"]>>
     ELSE <<>>)
  \o
  (IF \E k \in 1..Len(lines) : SearchInstrFlag(lines[k], <<"C","O","P","Y">>, <<"-","-","l","i","n","k">>)
     THEN <<[id |-> "copy-link",
             desc |-> <<"C","O","P","Y"," ","-","-","l","i","n","k"," ","(","B","u","i","l","d","K","i","t"," ","o","p","t","i","m","i","s","a","t","i","o","n",")">>,
             fix |-> "run.sh: strip --link flag via sed before Kaniko build"]>>
     ELSE <<>>)
  \o
  (IF \E k \in 1..Len(lines) : SearchInstrFlag(lines[k], <<"C","O","P","Y">>, <<"-","-","c","h","m","o","d","=">>)
     THEN <<[id |-> "copy-chmod",
             desc |-> <<"C","O","P","Y"," ","-","-","c","h","m","o","d"," ","(","B","u","i","l","d","K","i","t"," ","f","e","a","t","u","r","e",")">>,
             fix |-> "run.sh: strip --chmod flag via sed before Kaniko build"]>>
     ELSE <<>>)

\* fault: a multi-stage build does not count
is_self_contained_install_only(lines) ==
  ~copies_artifacts(lines) /\ has_install(lines)

\* copies_artifacts is False and (has_install or has_multi_stage)
is_self_contained(lines) ==
  ~copies_artifacts(lines) /\ (has_install(lines) \/ has_multi_stage(lines))

\* the dict analyze_dockerfile returns; path is not read by the function
analyze_dockerfile(content, path) ==
  LET lines == splitlines(content)
  IN  [score |-> dockerfile_score(content),
       flags |-> dockerfile_flags(content),
       is_self_contained |-> is_self_contained(lines),
       has_multi_stage |-> has_multi_stage(lines),
       base_images |-> base_images(lines),
       expose_ports |-> expose_ports(lines),
       edge_cases |-> dockerfile_edge_cases(lines)]

\* an exception leaves analyze_dockerfile: the one subscript it takes without
\* a guard is the [0] of src.strip("./").split("/")
analyze_dockerfile_raises(content) ==
  LET srcs == PlainCopySources(copy_lines(splitlines(content)))
  IN  \E k \in 1..Len(srcs) : Len(src_pieces(srcs[k])) < 1

(***************************************************************************)
(* Compose text: parse_compose_services and detect_compose_edge_cases.     *)
(***************************************************************************)
\* value of a <<"k","e","y",":"," ","v","a","l","u","e">> line: stripped.split(":", 1)[1].strip().strip('"').strip("'")
key_value(stripped) ==
  stripChars(stripChars(strip(splitSep1(stripped, ":")[2]), {"\""}), {"'"})

\* one iteration of <<"f","o","r"," ","l","i","n","e"," ","i","n"," ","c","o","n","t","e","n","t",".","s","p","l","i","t","l","i","n","e","s","(",")">> on the loop state st:
\* in_services, services, current (index in services of current_service, 0 for
\* None: the dict is shared with the list), indent_level, raised (IndexError)
compose_line(st, line) ==
  LET stripped == strip(line)
      leading == Len(line) - Len(lstrip(line))
      cur == st.current
      b1 == IF contains(stripped, <<"b","u","i","l","d",":">>)
              THEN [st.services EXCEPT ![cur].has_build = TRUE]
              ELSE st.services
      b2 == IF startswith(stripped, <<"c","o","n","t","e","x","t",":">>)
              THEN [b1 EXCEPT ![cur].build_context = key_value(stripped)]
              ELSE b1
      b3 == IF startswith(stripped, <<"d","o","c","k","e","r","f","i","l","e",":">>)
              THEN [b2 EXCEPT ![cur].dockerfile = key_value(stripped)]
              ELSE b2
  IN  IF startswith(stripped, <<"#">>) \/ Len(stripped) = 0 THEN st
      ELSE IF stripped = <<"s","e","r","v","i","c","e","s",":">> THEN [st EXCEPT !.in_services = TRUE]
      ELSE IF ~st.in_services THEN st
      ELSE IF leading <= 0 /\ Len(stripped) > 0 /\ ~startswith(stripped, <<"-">>)
        THEN [st EXCEPT !.in_services = FALSE]
      ELSE IF leading = 2 /\ endswith(stripped, <<":">>) /\ ~startswith(stripped, <<"-">>)
        THEN [st EXCEPT
                !.services = Append(@, [name |-> strip(rstripChars(stripped, {":"})),
                                        has_build |-> FALSE,
                                        build_context |-> <<>>,
                                        dockerfile |-> <<>>,
                                        depends_on |-> <<>>,
                                        ports |-> <<>>]),
                !.current = Len(st.services) + 1,
                !.indent_level = 2]
      ELSE IF cur > 0 /\ leading > st.indent_level
        THEN IF \E key \in {<<"c","o","n","t","e","x","t",":">>, <<"d","o","c","k","e","r","f","i","l","e",":">>} :
                  startswith(stripped, key) /\ Len(splitSep1(stripped, ":")) < 2
               THEN [st EXCEPT !.raised = TRUE]
               ELSE [st EXCEPT !.services = b3]
      ELSE st

RECURSIVE ComposeScan(_, _, _)
ComposeScan(st, lines, k) ==
  IF k > Len(lines) \/ st.raised THEN st
  ELSE ComposeScan(compose_line(st, lines[k]), lines, k + 1)

\* the loop state after the last line
compose_scan(content) ==
  ComposeScan([in_services |-> FALSE, services |-> <<>>, current |-> 0,
               indent_level |-> 0, raised |-> FALSE],
              splitlines(content), 1)

\* return [s for s in services if s["has_build"]]
parse_compose_services(content) ==
  SelectSeq(compose_scan(content).services, LAMBDA s : s.has_build)

\* an exception leaves parse_compose_services
parse_compose_raises(content) == compose_scan(content).raised

\* k is where re.MULTILINE <<"^","\\","s","+">> can end: some line start p < k with only
\* whitespace (line ends included) from p up to k
AfterIndent(content, k) ==
  \E p \in 1..(k - 1) :
    /\ p = 1 \/ content[p - 1] = NL
    /\ \A q \in p..(k - 1) : IsSpace(content[q])

\* <<"\\","s","*","$">> under re.MULTILINE at position k: blanks up to a line end or the end
BlankToEol(content, k) ==
  LET e == SkipChars(content, {" ", TAB}, k)
  IN  e > Len(content) \/ content[e] = NL

\* re.search(r'^\s+KEY\s*$', content, re.MULTILINE)
search_block_key(content, key) ==
  \E k \in 1..Len(content) :
    /\ OccursAt(content, key, k)
    /\ AfterIndent(content, k)
    /\ BlankToEol(content, k + Len(key))

\* re.search(r'^\s+KEY\s*\S', content, re.MULTILINE)
search_valued_key(content, key) ==
  \E k \in 1..Len(content) :
    /\ OccursAt(content, key, k)
    /\ AfterIndent(content, k)
    /\ SkipSpace(content, k + Len(key)) <= Len(content)

detect_compose_edge_cases(content) ==
  LET lines_lower == lower(content)
  IN  (IF search_block_key(content, <<"a","r","g","s",":">>)
         THEN <<[id |-> "compose-build-args",
                 desc |-> <<"b","u","i","l","d",".","a","r","g","s"," ","i","n"," ","c","o","m","p","o","s","e"," ",EMDASH," ","n","o","t"," ","p","a","s","s","e","d"," ","t","o"," ","K","a","n","i","k","o">>,
                 fix |-> "run.sh: extract args from compose, pass as --build-arg"]>>
         ELSE <<>>)
      \o
      (IF search_valued_key(content, <<"t","a","r","g","e","t",":">>)
         THEN <<[id |-> "compose-build-target",
                 desc |-> <<"b","u","i","l","d",".","t","a","r","g","e","t"," ","i","n"," ","c","o","m","p","o","s","e"," ",EMDASH," ","n","o","t"," ","p","a","s","s","e","d"," ","t","o"," ","K","a","n","i","k","o">>,
                 fix |-> "run.sh: extract target from compose, pass as --target"]>>
         ELSE <<>>)
      \o
      (IF contains(lines_lower, <<"e","n","v","_","f","i","l","e",":">>) \/ contains(lines_lower, <<"e","n","v","_","f","i","l","e"," ">>)
         THEN <<[id |-> "compose-env-file",
                 desc |-> <<"e","n","v","_","f","i","l","e"," ","i","n"," ","c","o","m","p","o","s","e"," ",EMDASH," ","n","o","t"," ","l","o","a","d","e","d"," ","b","y"," ","p","i","p","e","l","i","n","e">>,
                 fix |-> "run.sh: parse env_file references, generate K8s ConfigMap"]>>
         ELSE <<>>)
      \o
      (IF contains(lines_lower, <<"p","r","o","f","i","l","e","s",":">>)
         THEN <<[id |-> "compose-profiles",
                 desc |-> <<"c","o","m","p","o","s","e"," ","p","r","o","f","i","l","e","s"," ",EMDASH," ","p","i","p","e","l","i","n","e"," ","d","o","e","s","n","'","t"," ","s","e","l","e","c","t"," ","p","r","o","f","i","l","e","s">>,
                 fix |-> "generate.go: detect profiles, include in workflow"]>>
         ELSE <<>>)
      \o
      (IF search_block_key(content, <<"e","x","t","e","n","d","s",":">>)
         THEN <<[id |-> "compose-extends",
                 desc |-> <<"c","o","m","p","o","s","e"," ","e","x","t","e","n","d","s"," ",EMDASH," ","s","e","r","v","i","c","e"," ","i","n","h","e","r","i","t","a","n","c","e"," ","n","o","t"," ","r","e","s","o","l","v","e","d">>,
                 fix |-> "generate.go: resolve extends before building service list"]>>
         ELSE <<>>)
      \o
      (IF search_block_key(content, <<"h","e","a","l","t","h","c","h","e","c","k",":">>)
         THEN <<[id |-> "compose-healthcheck",
                 desc |-> <<"c","o","m","p","o","s","e"," ","h","e","a","l","t","h","c","h","e","c","k"," ",EMDASH," ","n","o","t"," ","m","a","p","p","e","d"," ","t","o"," ","K","8","s"," ","p","r","o","b","e","s">>,
                 fix |-> "generate.go: map compose healthcheck to readinessProbe"]>>
         ELSE <<>>)
      \o
      (IF search_block_key(content, <<"d","e","p","l","o","y",":">>)
         THEN <<[id |-> "compose-deploy",
                 desc |-> <<"c","o","m","p","o","s","e"," ","d","e","p","l","o","y"," ","c","o","n","f","i","g"," ",EMDASH," ","r","e","p","l","i","c","a","s","/","r","e","s","o","u","r","c","e","s"," ","n","o","t"," ","m","a","p","p","e","d">>,
                 fix |-> "generate.go: map deploy.replicas to K8s replicas"]>>
         ELSE <<>>)
      \o
      (IF contains(lines_lower, <<"i","n","c","l","u","d","e",":">>) \/ contains(lines_lower, <<"!","i","n","c","l","u","d","e">>)
         THEN <<[id |-> "compose-include",
                 desc |-> <<"c","o","m","p","o","s","e"," ","i","n","c","l","u","d","e","/","m","e","r","g","e"," ",EMDASH," ","m","u","l","t","i","-","f","i","l","e"," ","n","o","t"," ","s","u","p","p","o","r","t","e","d">>,
                 fix |-> "generate.go: detect and merge multiple compose files"]>>
         ELSE <<>>)

(***************************************************************************)
(* What the retrieval layer hands to the classifier.  The responses of     *)
(* the code-hosting API are the inputs of the model; the filters the       *)
(* source applies to them are modelled.  None is written <<>> where the    *)
(* source only tests truthiness (None and "" are both falsy).              *)
(***************************************************************************)
MONOREPO_MARKERS ==
  <<<<"n","x",".","j","s","o","n">>, <<"t","u","r","b","o",".","j","s","o","n">>, <<"l","e","r","n","a",".","j","s","o","n">>, <<"p","n","p","m","-","w","o","r","k","s","p","a","c","e",".","y","a","m","l">>,
    <<"B","U","I","L","D">>, <<"W","O","R","K","S","P","A","C","E">>, <<"p","a","n","t","s",".","t","o","m","l">>>>

\* data: the response to the root listing request: is_list says whether it is
\* a list, items are its [name, type] entries
check_monorepo_markers(data) ==
  IF ~data.is_list THEN <<>>
  ELSE LET root_files == {it.name : it \in {x \in data.items : x.type = "file"}}
       IN  SelectSeq(MONOREPO_MARKERS, LAMBDA m : m \in root_files)

COMPOSE_NAMES ==
  <<<<"d","o","c","k","e","r","-","c","o","m","p","o","s","e",".","y","m","l">>, <<"d","o","c","k","e","r","-","c","o","m","p","o","s","e",".","y","a","m","l">>, <<"c","o","m","p","o","s","e",".","y","m","l">>, <<"c","o","m","p","o","s","e",".","y","a","m","l">>>>

\* the value None of <<"c","o","m","p","o","s","e">>
NoCompose == [found |-> FALSE, filename |-> <<>>, content |-> <<>>]

\* served: for each of the four names, whether the response has a content
\* and the decoded content.  The first file that holds a build directive.
check_repo_has_compose_with_build(served) ==
  LET ok == {k \in 1..Len(COMPOSE_NAMES) :
               /\ served[k].has_content
               /\ \/ contains(served[k].content, <<"b","u","i","l","d",":">>)
                  \/ contains(served[k].content, <<"b","u","i","l","d"," ",":">>)}
  IN  IF ok = {} THEN NoCompose
      ELSE LET k == CHOOSE x \in ok : \A y \in ok : x <= y
           IN  [found |-> TRUE, filename |-> COMPOSE_NAMES[k],
                content |-> served[k].content]

\* the path filter of find_dockerfiles: test/example/ci directories
skipped_path(path) ==
  \E skip \in {<<"t","e","s","t","/">>, <<"t","e","s","t","s","/">>, <<"e","x","a","m","p","l","e","/">>, <<"e","x","a","m","p","l","e","s","/">>, <<".","c","i","/">>,
                <<"c","i","/">>, <<"h","a","c","k","/">>, <<"s","c","r","i","p","t","s","/">>, <<"d","e","p","l","o","y","/">>, <<".","d","e","v","c","o","n","t","a","i","n","e","r">>} :
    contains(lower(path), skip)

\* items: the code-search hits, each [path, content]; content is what
\* fetch_file_content gives for a path that is not skipped, <<>> when that is
\* None or an empty file (a skipped path is never fetched)
find_dockerfiles(items) ==
  SelectSeq(items, LAMBDA it : ~skipped_path(it.path) /\ Len(it.content) > 0)

(***************************************************************************)
(* Bounds and the input catalogue.                                         *)
(***************************************************************************)
\* most code-search hits (Dockerfiles) one repository has
MaxDockerfiles == 2

\* the Dockerfile texts the retrieval layer may serve
DockerfileContents ==
  { \* builder stage, install, aliased copy, port, entry point
    <<"F","R","O","M"," ","n","o","d","e",":","1","8"," ","A","S"," ","b","u","i","l","d",NL,"R","U","N"," ","n","p","m"," ","c","i",NL,"F","R","O","M"," ","n","o","d","e",":","1","8",NL,"C","O","P","Y"," ","-","-","f","r","o","m","=","b","u","i","l","d"," ","/","a","p","p","/","d","i","s","t"," ","/","a","p","p",NL,"E","X","P","O","S","E"," ","3","0","0","0",NL,"C","M","D"," ","n","o","d","e"," ","s","e","r","v","e","r",".","j","s">>,
    \* single stage copying a pre-built directory, no install step
    <<"F","R","O","M"," ","n","o","d","e",":","1","8",NL,"C","O","P","Y"," ","b","u","i","l","d","/"," ","/","a","p","p">>,
    \* single stage with install and a HEALTHCHECK
    <<"F","R","O","M"," ","p","y","t","h","o","n",":","3",".","1","1",NL,"R","U","N"," ","p","i","p"," ","i","n","s","t","a","l","l"," ","-","r"," ","r","e","q","u","i","r","e","m","e","n","t","s",".","t","x","t",NL,"E","X","P","O","S","E"," ","8","0","0","0",NL,"C","M","D"," ","p","y","t","h","o","n"," ","a","p","p",".","p","y",NL,"H","E","A","L","T","H","C","H","E","C","K"," ","C","M","D"," ","c","u","r","l"," ","-","f"," ","h","t","t","p",":","/","/","l","o","c","a","l","h","o","s","t",":","8","0","0","0","/">>,
    \* multi-stage that still copies dist/ from the build context
    <<"F","R","O","M"," ","n","o","d","e",":","1","8"," ","A","S"," ","b","u","i","l","d",NL,"R","U","N"," ","n","p","m"," ","c","i",NL,"F","R","O","M"," ","n","g","i","n","x",":","1",".","2","5",NL,"C","O","P","Y"," ","d","i","s","t","/"," ","/","u","s","r","/","s","h","a","r","e","/","n","g","i","n","x","/","h","t","m","l",NL,"E","X","P","O","S","E"," ","8","0",NL,"C","M","D"," ","n","g","i","n","x">>,
    \* aliased single stage without install step
    <<"F","R","O","M"," ","n","o","d","e",":","1","8"," ","A","S"," ","a","p","p",NL,"E","X","P","O","S","E"," ","3","0","0","0",NL,"C","M","D"," ","n","o","d","e"," ","s","e","r","v","e","r",".","j","s">>,
    \* a lone FROM
    <<"F","R","O","M"," ","a","l","p","i","n","e",":","3",".","1","9">>,
    \* instruction keywords followed by white space only
    <<"F","R","O","M"," ",NL,"C","O","P","Y"," ",NL,"E","X","P","O","S","E"," ">>,
    \* three artifact sources
    <<"F","R","O","M"," ","n","o","d","e",":","1","8",NL,"C","O","P","Y"," ","d","i","s","t"," ","b","u","i","l","d"," ","/","a","p","p",NL,"C","O","P","Y"," ","o","u","t","/"," ","/","s","r","v">>,
    \* BuildKit cache mount
    <<"F","R","O","M"," ","g","o","l","a","n","g",":","1",".","2","2",NL,"R","U","N"," ","-","-","m","o","u","n","t","=","t","y","p","e","=","c","a","c","h","e",",","t","a","r","g","e","t","=","/","g","o","/","p","k","g"," ","g","o"," ","b","u","i","l","d"," ",".","/",".",".",".",NL,"C","M","D"," ",".","/","a","p","p">>,
    \* the same private base image in two stages
    <<"F","R","O","M"," ","r","e","g","i","s","t","r","y",".","c","o","r","p","/","t","e","a","m","/","b","a","s","e",":","1",NL,"F","R","O","M"," ","r","e","g","i","s","t","r","y",".","c","o","r","p","/","t","e","a","m","/","b","a","s","e",":","1",NL,"R","U","N"," ","p","i","p"," ","i","n","s","t","a","l","l"," ","x",NL,"C","M","D"," ","r","u","n">> }

\* the Compose texts the retrieval layer may serve
ComposeContents ==
  { <<"s","e","r","v","i","c","e","s",":",NL," "," ","w","e","b",":",NL," "," "," "," ","i","m","a","g","e",":"," ","n","g","i","n","x",":","1",".","2","5">>,
    <<"s","e","r","v","i","c","e","s",":",NL," "," ","w","e","b",":",NL," "," "," "," ","b","u","i","l","d",":"," ",".",NL," "," "," "," ","p","o","r","t","s",":",NL," "," "," "," "," "," ","-"," ","8","0","8","0",":","8","0">>,
    <<"s","e","r","v","i","c","e","s",":",NL," "," ","a","p","i",":",NL," "," "," "," ","b","u","i","l","d",":",NL," "," "," "," "," "," ","c","o","n","t","e","x","t",":"," ",".","/","a","p","i",NL," "," "," "," "," "," ","t","a","r","g","e","t",":"," ","p","r","o","d",NL," "," "," "," ","e","n","v","_","f","i","l","e",":"," ",".","e","n","v">> }

\* root listings: every name is absent, a file or a directory
RootNames == {<<"n","x",".","j","s","o","n">>, <<"B","U","I","L","D">>, <<"R","E","A","D","M","E",".","m","d">>}

RootListings ==
  {[is_list |-> FALSE, items |-> {}]} \cup
  UNION {{[is_list |-> TRUE, items |-> {[name |-> n, type |-> ty[n]] : n \in S}]
            : ty \in [S -> {"file", "dir"}]}
           : S \in SUBSET RootNames}

\* path of the k-th code-search hit; hits under tests/ are the excluded ones
HitPath(k, excluded) ==
  (IF excluded THEN <<"t","e","s","t","s","/">> ELSE <<>>)
    \o <<"s","v","c">> \o <<CodeOrder[k + 1]>> \o <<"/","D","o","c","k","e","r","f","i","l","e">>

\* one code-search hit at position k: under an excluded directory (never
\* fetched), or fetched with a content, which may be empty
HitsAt(k) ==
  {[path |-> HitPath(k, TRUE), content |-> <<>>]}
    \cup {[path |-> HitPath(k, FALSE), content |-> c] :
            c \in DockerfileContents \cup {<<>>}}

\* the lists of n code-search hits
RECURSIVE HitLists(_)
HitLists(n) ==
  IF n = 0 THEN {<<>>}
  ELSE {Append(h, x) : h \in HitLists(n - 1), x \in HitsAt(n)}

\* the code-search results: up to MaxDockerfiles hits with distinct paths
SearchHits == UNION {HitLists(n) : n \in 0..MaxDockerfiles}

\* the four Compose requests: each is answered with a content or without
ComposeServed ==
  [1..Len(COMPOSE_NAMES) ->
     {[has_content |-> FALSE, content |-> <<>>]}
       \cup {[has_content |-> TRUE, content |-> c] : c \in ComposeContents}]


(***************************************************************************)
(* deep_validate: the pure parts of the orchestrator.                      *)
(***************************************************************************)
\* candidate[key] = value on a dict
setitem(d, key, value) == (key :> value) @@ d

\* c.get(key, default) on a dict
get(d, key, default) == IF key \in DOMAIN d THEN d[key] ELSE default

\* f"  {df['path']}: {flag}" for every flag of one analysis
prefixed_flags(path, flags) ==
  [k \in 1..Len(flags) |-> <<" "," ">> \o path \o <<":"," ">> \o flags[k]]

\* any("🔴" in f for f in all_flags)
has_red(all_flags) == \E k \in 1..Len(all_flags) : contains(all_flags[k], <<RED>>)

\* any("🟡" in f for f in all_flags)
has_yellow(all_flags) ==
  \E k \in 1..Len(all_flags) : contains(all_flags[k], <<YELLOW>>)

\* int(num / den) for den > 0: truncation toward zero
int_of(num, den) == IF num >= 0 THEN num \div den ELSE -((-num) \div den)

RECURSIVE sum_scores(_)
sum_scores(analyses) ==
  IF Len(analyses) = 0 THEN 0 ELSE analyses[1].score + sum_scores(Tail(analyses))

\* fault: the monorepo short-circuit is never taken
has_monorepo_markers_ignored(found) == FALSE

\* the guard <<"i","f"," ","m","o","n","o","_","m","a","r","k","e","r","s">>
has_monorepo_markers(found) == Len(found) > 0

\* fault: the short-circuit for a repository without Dockerfiles is missing
no_dockerfiles_skipped(dfs, c) == FALSE

\* fault: the second <<"n","o","t">> is dropped
no_dockerfiles_with_compose(dfs, c) == Len(dfs) = 0 /\ c.found

\* the guard <<"i","f"," ","n","o","t"," ","d","o","c","k","e","r","f","i","l","e","s"," ","a","n","d"," ","n","o","t"," ","c","o","m","p","o","s","e">>
no_dockerfiles(dfs, c) == Len(dfs) = 0 /\ ~c.found

\* fault: the empty list is not caught before the division
no_analyses_unguarded(analyses) == FALSE

\* the guard <<"i","f"," ","n","o","t"," ","a","n","a","l","y","s","e","s">>
no_analyses(analyses) == Len(analyses) = 0

\* fault: the Compose credit is forgotten
no_analyzable_score_zero(c) == 0

\* 20 if compose else 0
no_analyzable_score(c) == IF c.found THEN 20 ELSE 0

\* fault: a Dockerfile that is not self-contained costs nothing
overall_score_no_penalty(analyses, has_compose) ==
  LET n == Len(analyses)
      avg0 == sum_scores(analyses)
      avg1 == IF has_compose THEN avg0 + 10 * n ELSE avg0
      avg2 == IF n >= 2 THEN avg1 + 5 * n ELSE avg1
  IN  max2(0, min2(100, int_of(avg2, n)))

\* fault: the penalty is applied once, however many Dockerfiles earn it
overall_score_single_penalty(analyses, has_compose) ==
  LET n == Len(analyses)
      avg0 == sum_scores(analyses)
      avg1 == IF has_compose THEN avg0 + 10 * n ELSE avg0
      avg2 == IF n >= 2 THEN avg1 + 5 * n ELSE avg1
      avg3 == IF \E k \in 1..n : ~analyses[k].is_self_contained
                THEN avg2 - 15 * n
                ELSE avg2
  IN  max2(0, min2(100, int_of(avg3, n)))

\* candidate["score"] of the score-based path.  avg_score is a float in the
\* source; here it is the exact fraction avg / n, which int() truncates alike
\* (a quotient by n <= 9 that is no integer is no closer than 1/n to one).
overall_score(analyses, has_compose) ==
  LET n == Len(analyses)
      avg0 == sum_scores(analyses)
      avg1 == IF has_compose THEN avg0 + 10 * n ELSE avg0
      avg2 == IF n >= 2 THEN avg1 + 5 * n ELSE avg1
      non_self_contained == SelectSeq(analyses, LAMBDA a : ~a.is_self_contained)
      avg3 == IF Len(non_self_contained) > 0
                THEN avg2 - 15 * Len(non_self_contained) * n
                ELSE avg2
  IN  max2(0, min2(100, int_of(avg3, n)))

RECURSIVE AllExposePorts(_)
AllExposePorts(analyses) ==
  IF Len(analyses) = 0 THEN <<>>
  ELSE analyses[1].expose_ports \o AllExposePorts(Tail(analyses))

RECURSIVE DockerfileEdgeCases(_)
DockerfileEdgeCases(analyses) ==
  IF Len(analyses) = 0 THEN <<>>
  ELSE analyses[1].edge_cases \o DockerfileEdgeCases(Tail(analyses))

\* all_edge_cases: every Dockerfile's, then the Compose detector's
all_edge_cases(analyses, compose) ==
  DockerfileEdgeCases(analyses)
    \o (IF compose.found THEN detect_compose_edge_cases(compose.content) ELSE <<>>)

\* fault: the <<"s","e","e","n">> test is left out
Dedup_keep_all(ecs, seen_ids) == ecs

\* de-duplicate by id, keeping the first of each
RECURSIVE Dedup(_, _)
Dedup(ecs, seen_ids) ==
  IF Len(ecs) = 0 THEN <<>>
  ELSE IF ecs[1].id \in seen_ids THEN Dedup(Tail(ecs), seen_ids)
  ELSE <<ecs[1]>> \o Dedup(Tail(ecs), seen_ids \cup {ecs[1].id})

unique_edge_cases(analyses, compose) == Dedup(all_edge_cases(analyses, compose), {})

\* fault: actionable looks at the yellow flags only
actionable_yellow_only(yellow, red) == yellow

\* candidate["actionable"]: True if has_yellow and not has_red, else False
actionable(yellow, red) == IF yellow /\ ~red THEN TRUE ELSE FALSE

\* fault: the second arm forgets <<"n","o","t"," ","h","a","s","_","r","e","d">>
verdict_branch_red_stretch(score, edge_cases, red) ==
  IF score >= 60 /\ Len(edge_cases) = 0 THEN 1
  ELSE IF score >= 40 /\ Len(edge_cases) > 0 THEN 2
  ELSE IF score >= 60 /\ Len(edge_cases) > 0 THEN 3
  ELSE IF score >= 60 THEN 4
  ELSE IF score >= 40 THEN 5
  ELSE 6

\* fault: the third arm asks for <<"n","o","t"," ","h","a","s","_","r","e","d">> as the second does
verdict_branch_third_no_red(score, edge_cases, red) ==
  IF score >= 60 /\ Len(edge_cases) = 0 THEN 1
  ELSE IF score >= 40 /\ Len(edge_cases) > 0 /\ ~red THEN 2
  ELSE IF score >= 60 /\ Len(edge_cases) > 0 /\ ~red THEN 3
  ELSE IF score >= 60 THEN 4
  ELSE IF score >= 40 THEN 5
  ELSE 6

\* fault: the first arm does not look at the edge cases
verdict_branch_first_any(score, edge_cases, red) ==
  IF score >= 60 THEN 1
  ELSE IF score >= 40 /\ Len(edge_cases) > 0 /\ ~red THEN 2
  ELSE IF score >= 60 /\ Len(edge_cases) > 0 THEN 3
  ELSE IF score >= 60 THEN 4
  ELSE IF score >= 40 THEN 5
  ELSE 6

\* which arm of the if/elif chain assigns the verdict (1 to 6, top to bottom)
verdict_branch(score, edge_cases, red) ==
  IF score >= 60 /\ Len(edge_cases) = 0 THEN 1
  ELSE IF score >= 40 /\ Len(edge_cases) > 0 /\ ~red THEN 2
  ELSE IF score >= 60 /\ Len(edge_cases) > 0 THEN 3
  ELSE IF score >= 60 THEN 4
  ELSE IF score >= 40 THEN 5
  ELSE 6

\* the verdict each arm assigns
branch_verdict(b) ==
  CASE b = 1 -> <<"r","e","c","o","m","m","e","n","d","e","d">>
    [] b = 2 -> <<"s","t","r","e","t","c","h">>
    [] b = 3 -> <<"s","t","r","e","t","c","h">>
    [] b = 4 -> <<"r","e","c","o","m","m","e","n","d","e","d">>
    [] b = 5 -> <<"m","a","y","b","e">>
    [] OTHER -> <<"s","k","i","p",":","l","o","w","-","s","c","o","r","e">>

\* analyze_dockerfile on every text the retrieval layer may serve
AnalysisOf == [c \in DockerfileContents |-> analyze_dockerfile(c, <<>>)]

AnalysisRaises == [c \in DockerfileContents |-> analyze_dockerfile_raises(c)]

\* analyze_dockerfile(df["content"], df["path"]); the table spares the texts
\* of the catalogue a second evaluation
analysis_of(content) ==
  IF content \in DOMAIN AnalysisOf THEN AnalysisOf[content]
  ELSE analyze_dockerfile(content, <<>>)

analysis_raises(content) ==
  IF content \in DOMAIN AnalysisRaises THEN AnalysisRaises[content]
  ELSE analyze_dockerfile_raises(content)


(***************************************************************************)
(* deep_validate as a state machine: one evaluation of one candidate.      *)
(* The steps are cut at the three requests to the retrieval layer and at   *)
(* the iterations of the analysis loop.                                    *)
(***************************************************************************)
VARIABLES
  pc,            \* where deep_validate stands
  candidate,     \* the candidate dict, a function of its keys
  mono_markers,  \* local of deep_validate
  compose,       \* local: NoCompose or [found, filename, content]
  dockerfiles,   \* local: list of [path, content]
  analyses,      \* local
  all_flags,     \* local
  branch,        \* the arm of the verdict chain that assigned the verdict, 0 if none
  raised,        \* an exception left deep_validate
  dockerfile_text, \* the fragments of the Dockerfile a repository holds
  compose_text,  \* the fragments of the Compose file a repository holds
  main_pc,       \* where main() stands, "off" when deep_validate runs alone
  existing,      \* main: urls read from repos.txt and repos-e2e.txt
  limit,         \* main: args.limit
  lang,          \* main: index of the language the search loop is at
  page,          \* main: page of the first strategy's inner loop
  seen,          \* main: full names already taken
  candidates,    \* main: the candidate dicts
  validated,     \* main: the dicts deep_validate returned
  recommended,   \* main: tier buckets
  stretch,
  maybe,
  skipped

\* the state of main()
main_vars ==
  <<main_pc, existing, limit, lang, page, seen, candidates, validated,
    recommended, stretch, maybe, skipped>>

\* what deep_validate never touches
outer_vars == <<dockerfile_text, compose_text, main_vars>>

vars ==
  <<pc, candidate, mono_markers, compose, dockerfiles, analyses, all_flags,
    branch, raised, dockerfile_text, compose_text, main_vars>>

\* the dict check_repo_quality returns, with the source main() adds
InitialCandidate ==
  [url |-> <<"h","t","t","p","s",":","/","/","g","i","t","h","u","b",".","c","o","m","/","a","c","m","e","/","s","h","o","p">>,
   full_name |-> <<"a","c","m","e","/","s","h","o","p">>,
   stars |-> 120,
   language |-> <<"G","o">>,
   size_kb |-> 900,
   description |-> <<"s","h","o","p">>,
   updated |-> <<"2","0","2","4","-","0","5","-","0","1">>,
   source |-> <<"d","o","c","k","e","r","-","G","o">>]

\* the locals of deep_validate at its entry
Entry(c) ==
  /\ pc = "start"
  /\ candidate = c
  /\ mono_markers = <<>>
  /\ compose = NoCompose
  /\ dockerfiles = <<>>
  /\ analyses = <<>>
  /\ all_flags = <<>>
  /\ branch = 0
  /\ raised = FALSE

\* main() is not running
MainOff ==
  /\ main_pc = "off"
  /\ existing = {}
  /\ limit = 0
  /\ lang = 0
  /\ page = 0
  /\ seen = {}
  /\ candidates = <<>>
  /\ validated = <<>>
  /\ recommended = <<>>
  /\ stretch = <<>>
  /\ maybe = <<>>
  /\ skipped = <<>>

Init ==
  /\ Entry(InitialCandidate)
  /\ dockerfile_text = <<>>
  /\ compose_text = <<>>
  /\ MainOff

\* an exception propagates out of deep_validate
Raise ==
  /\ pc' = "crashed"
  /\ raised' = TRUE
  /\ UNCHANGED <<candidate, mono_markers, compose, dockerfiles, analyses,
                 all_flags, branch, outer_vars>>

\* owner/repo unpacking, check_monorepo_markers and the monorepo short-circuit
CheckMonorepoOn(listings) ==
  /\ pc = "start"
  /\ \E data \in listings :
       LET found == check_monorepo_markers(data)
       IN  IF Len(splitSep1(candidate["full_name"], "/")) < 2 THEN Raise
           ELSE /\ mono_markers' = found
                /\ IF has_monorepo_markers(found)
                     THEN /\ candidate' =
                               setitem(setitem(setitem(setitem(candidate,
                                 "monorepo_markers", found),
                                 "score", 0),
                                 "verdict", <<"s","k","i","p",":","m","o","n","o","r","e","p","o"," ","(">> \o join(<<","," ">>, found) \o <<")">>),
                                 "flags", <<<<RED," ","m","o","n","o","r","e","p","o"," ","t","o","o","l","i","n","g",":"," ">> \o join(<<","," ">>, found)>>)
                          /\ pc' = "returned"
                     ELSE /\ candidate' = candidate
                          /\ pc' = "compose"
                /\ UNCHANGED <<compose, dockerfiles, analyses, all_flags,
                               branch, raised, outer_vars>>

\* the root listing is any the retrieval layer may return
CheckMonorepo == CheckMonorepoOn(RootListings)

\* check_repo_has_compose_with_build and parse_compose_services
FetchComposeOn(answers) ==
  /\ pc = "compose"
  /\ \E served \in answers :
       LET c == check_repo_has_compose_with_build(served)
       IN  IF c.found /\ parse_compose_raises(c.content) THEN Raise
           ELSE /\ compose' = c
                /\ candidate' =
                     IF c.found
                       THEN setitem(setitem(candidate,
                              "has_compose_build", TRUE),
                              "compose_services", Len(parse_compose_services(c.content)))
                       ELSE setitem(candidate, "has_compose_build", FALSE)
                /\ pc' = "find"
                /\ UNCHANGED <<mono_markers, dockerfiles, analyses, all_flags,
                               branch, raised, outer_vars>>

FetchCompose == FetchComposeOn(ComposeServed)

\* find_dockerfiles and the no-dockerfiles short-circuit
FindDockerfilesOn(hits) ==
  /\ pc = "find"
  /\ \E items \in hits :
       LET dfs == find_dockerfiles(items)
           c1 == setitem(candidate, "dockerfile_count", Len(dfs))
       IN  /\ dockerfiles' = dfs
           /\ IF no_dockerfiles(dfs, compose)
                THEN /\ candidate' =
                          setitem(setitem(setitem(c1,
                            "score", 0),
                            "verdict", <<"s","k","i","p",":","n","o","-","d","o","c","k","e","r","f","i","l","e","s">>),
                            "flags", <<<<RED," ","n","o"," ","D","o","c","k","e","r","f","i","l","e","s"," ","f","o","u","n","d">>>>)
                     /\ pc' = "returned"
                ELSE /\ candidate' = c1
                     /\ pc' = "analyze"
  /\ UNCHANGED <<mono_markers, compose, analyses, all_flags, branch, raised,
                 outer_vars>>

FindDockerfiles == FindDockerfilesOn(SearchHits)

\* one iteration of <<"f","o","r"," ","d","f"," ","i","n"," ","d","o","c","k","e","r","f","i","l","e","s">>
AnalyzeNext ==
  /\ pc = "analyze"
  /\ Len(analyses) < Len(dockerfiles)
  /\ LET df == dockerfiles[Len(analyses) + 1]
         analysis == setitem(analysis_of(df.content), "path", df.path)
     IN  IF analysis_raises(df.content) THEN Raise
         ELSE /\ analyses' = Append(analyses, analysis)
              /\ all_flags' = all_flags \o prefixed_flags(df.path, analysis.flags)
              /\ UNCHANGED <<pc, candidate, mono_markers, compose, dockerfiles,
                             branch, raised, outer_vars>>

\* from the end of the loop to the return: the no-analyzable short-circuit,
\* the overall score, the edge cases, the verdict and actionable
Aggregate ==
  /\ pc = "analyze"
  /\ Len(analyses) = Len(dockerfiles)
  /\ LET c1 == setitem(setitem(candidate,
                 "dockerfiles_analyzed", Len(analyses)),
                 "flags", all_flags)
         score == overall_score(analyses, compose.found)
         edge_cases == unique_edge_cases(analyses, compose)
         b == verdict_branch(score, edge_cases, has_red(all_flags))
     IN  IF no_analyses(analyses)
           THEN /\ candidate' =
                     setitem(setitem(c1,
                       "score", no_analyzable_score(compose)),
                       "verdict", <<"s","k","i","p",":","n","o","-","a","n","a","l","y","z","a","b","l","e","-","d","o","c","k","e","r","f","i","l","e","s">>)
                /\ pc' = "returned"
                /\ UNCHANGED <<mono_markers, compose, dockerfiles, analyses,
                               all_flags, branch, raised, outer_vars>>
         ELSE IF Len(analyses) = 0 THEN Raise  \* ZeroDivisionError
         ELSE /\ candidate' =
                   setitem(setitem(setitem(setitem(setitem(c1,
                     "score", score),
                     "expose_ports", AllExposePorts(analyses)),
                     "edge_cases", edge_cases),
                     "verdict", branch_verdict(b)),
                     "actionable", actionable(has_yellow(all_flags), has_red(all_flags)))
              /\ branch' = b
              /\ pc' = "returned"
              /\ UNCHANGED <<mono_markers, compose, dockerfiles, analyses,
                             all_flags, raised, outer_vars>>

Next ==
  \/ CheckMonorepo
  \/ FetchCompose
  \/ FindDockerfiles
  \/ AnalyzeNext
  \/ Aggregate

Spec == Init /\ [][Next]_vars


(***************************************************************************)
(* deep_validate over a repository that holds one Dockerfile, whose text   *)
(* is put together from instruction fragments in any order.                *)
(***************************************************************************)
MaxFragments == 3

\* the instruction fragments a Dockerfile is written from
DockerfileFragments ==
  { <<"F","R","O","M"," ","n","o","d","e",":","1","8">>,
    <<"F","R","O","M"," ","n","o","d","e",":","1","8"," ","A","S"," ","a","p","p">>,
    <<"F","R","O","M"," ","n","o","d","e",":","1","8"," ","A","S"," ","b","u","i","l","d",NL,"R","U","N"," ","n","p","m"," ","c","i">>,
    <<"F","R","O","M"," ","a","c","m","e","/","b","a","s","e",":","1">>,
    <<"C","O","P","Y"," ","d","i","s","t","/"," ","/","a","p","p">>,
    <<"C","O","P","Y"," ",".","/","b","u","i","l","d","/"," ","d","i","s","t","/","x"," ","/","s","r","v">>,
    <<"C","O","P","Y"," ",".","n","e","x","t","/"," ","/","a","p","p">>,
    <<"C","O","P","Y"," ","-","-","f","r","o","m","=","b","u","i","l","d"," ","/","a","p","p","/","d","i","s","t"," ","/","a","p","p">>,
    <<"C","O","P","Y"," ","-","-","c","h","o","w","n","=","a","p","p"," ","-","-","f","r","o","m","=","b","u","i","l","d"," ","d","i","s","t","/"," ","/","a","p","p">>,
    <<"R","U","N"," ","-","-","m","o","u","n","t","=","t","y","p","e","=","c","a","c","h","e",",","t","a","r","g","e","t","=","/","c"," ","-","-","m","o","u","n","t","=","t","y","p","e","=","s","e","c","r","e","t",",","i","d","=","k"," ","m","a","k","e">>,
    <<"c","o","p","y"," ","."," ","/","s","r","c">>,
    <<"R","U","N"," ","g","o"," ","b","u","i","l","d"," ",".","/",".",".",".">>,
    <<"E","X","P","O","S","E"," ","3","0","0","0">>,
    <<"C","M","D"," ","n","o","d","e"," ","s","e","r","v","e","r",".","j","s">>,
    <<"H","E","A","L","T","H","C","H","E","C","K"," ","C","M","D"," ","c","u","r","l"," ","-","f"," ","h","t","t","p",":","/","/","l","o","c","a","l","h","o","s","t","/">> }

\* the text the fragments make
text_of(fragments) == join(<<NL>>, fragments)

\* a root listing without marker files
PlainListing ==
  [is_list |-> TRUE, items |-> {[name |-> <<"R","E","A","D","M","E",".","m","d">>, type |-> "file"]}]

\* the Compose requests: all unanswered, or the first answered with a build
TextComposeServed ==
  { [k \in 1..Len(COMPOSE_NAMES) |-> [has_content |-> FALSE, content |-> <<>>]],
    [k \in 1..Len(COMPOSE_NAMES) |->
       IF k = 1
         THEN [has_content |-> TRUE,
               content |-> <<"s","e","r","v","i","c","e","s",":",NL," "," ","w","e","b",":",NL," "," "," "," ","b","u","i","l","d",":"," ",".",NL," "," "," "," ","p","o","r","t","s",":",NL," "," "," "," "," "," ","-"," ","8","0","8","0",":","8","0">>]
         ELSE [has_content |-> FALSE, content |-> <<>>]] }

InitAnalyze ==
  /\ Entry(InitialCandidate)
  /\ dockerfile_text = <<>>
  /\ compose_text = <<>>
  /\ MainOff

\* the repository's Dockerfile gets one more fragment
WriteFragment ==
  /\ pc = "start"
  /\ Len(dockerfile_text) < MaxFragments
  /\ \E f \in DockerfileFragments : dockerfile_text' = Append(dockerfile_text, f)
  /\ UNCHANGED <<pc, candidate, mono_markers, compose, dockerfiles, analyses,
                 all_flags, branch, raised, compose_text, main_vars>>

TextCheckMonorepo ==
  /\ Len(dockerfile_text) > 0
  /\ CheckMonorepoOn({PlainListing})

TextFetchCompose == FetchComposeOn(TextComposeServed)

\* the code search finds the one Dockerfile
TextFindDockerfiles ==
  FindDockerfilesOn({<<[path |-> <<"D","o","c","k","e","r","f","i","l","e">>,
                        content |-> text_of(dockerfile_text)]>>})

NextAnalyze ==
  \/ WriteFragment
  \/ TextCheckMonorepo
  \/ TextFetchCompose
  \/ TextFindDockerfiles
  \/ AnalyzeNext
  \/ Aggregate

SpecAnalyze == InitAnalyze /\ [][NextAnalyze]_vars


(***************************************************************************)
(* main(): the three search strategies fill the candidate list, the list   *)
(* is sorted by stars, the first candidates are deep-validated one after   *)
(* the other, and the verdicts are put into the tier buckets.              *)
(***************************************************************************)
MaxLanguages == 1
MaxResults == 2
MaxLimit == 2

SKIP_OWNERS == {<<"k","i","n","d","l","i","n","g","-","s","h">>, <<"j","e","f","f","-","v","i","n","c","e","n","t">>}

LANGUAGES ==
  <<<<"G","o">>, <<"P","y","t","h","o","n">>, <<"J","a","v","a","S","c","r","i","p","t">>, <<"T","y","p","e","S","c","r","i","p","t">>, <<"J","a","v","a">>, <<"R","u","b","y">>,
    <<"P","H","P">>, <<"R","u","s","t">>, <<"C","#">>, <<"E","l","i","x","i","r">>, <<"K","o","t","l","i","n">>, <<"S","c","a","l","a">>>>

\* the languages a search loop goes through: LANGUAGES or LANGUAGES[:8],
\* cut to the first MaxLanguages
searched(langs) == SubSeq(langs, 1, min2(Len(langs), MaxLanguages))

\* a repository object of the search API
Repo(name, stars, size, fork) ==
  [full_name |-> name,
   html_url |-> <<"h","t","t","p","s",":","/","/","g","i","t","h","u","b",".","c","o","m","/">> \o name,
   stargazers_count |-> stars,
   language |-> <<"G","o">>,
   size |-> size,
   description |-> <<"s","v","c">>,
   pushed_at |-> <<"2","0","2","4","-","0","5","-","0","1">>,
   fork |-> fork,
   archived |-> FALSE]

\* the repositories the searches may return
Repos ==
  { Repo(<<"a","c","m","e","/","s","h","o","p">>, 120, 900, FALSE),
    Repo(<<"a","c","m","e","/","p","a","y">>, 300, 900, FALSE),
    Repo(<<"z","e","n","/","b","l","o","g">>, 120, 700, FALSE),
    Repo(<<"k","i","n","d","l","i","n","g","-","s","h","/","d","e","m","o">>, 500, 900, FALSE),
    Repo(<<"f","a","n","/","f","o","r","k">>, 900, 900, TRUE),
    Repo(<<"t","i","n","y","/","t","o","y">>, 200, 10, FALSE) }

\* one page of search results
SearchResults == UNION {[1..n -> Repos] : n \in 0..MaxResults}

\* check_repo_quality: None (passes = FALSE) or the candidate dict
check_repo_quality(repo) ==
  LET full_name == repo.full_name
      owner == IF contains(full_name, <<"/">>) THEN splitSep(full_name, "/")[1] ELSE <<>>
  IN  IF \/ owner \in SKIP_OWNERS
         \/ repo.fork
         \/ repo.archived
         \/ repo.size < 50
         \/ repo.size > 500000
        THEN [passes |-> FALSE, info |-> <<>>]
        ELSE [passes |-> TRUE,
              info |-> [url |-> repo.html_url,
                        full_name |-> full_name,
                        stars |-> repo.stargazers_count,
                        language |-> repo.language,
                        size_kb |-> repo.size,
                        description |-> SubSeq(repo.description, 1,
                                               min2(100, Len(repo.description))),
                        updated |-> repo.pushed_at]]

\* fault: a repository is taken again when another strategy returns it
is_new_unseen(info, seen_names, existing_urls) == info.url \notin existing_urls

\* info["full_name"] not in seen and info["url"] not in existing
is_new(info, seen_names, existing_urls) ==
  info.full_name \notin seen_names /\ info.url \notin existing_urls

\* <<"f","o","r"," ","r","e","p","o"," ","i","n"," ","r","e","p","o","s",":">> of a strategy, on the pair of seen and candidates
RECURSIVE add_repos(_, _, _, _)
add_repos(repos, acc, existing_urls, source) ==
  IF Len(repos) = 0 THEN acc
  ELSE LET q == check_repo_quality(repos[1])
       IN  IF q.passes /\ is_new(q.info, acc.seen, existing_urls)
             THEN add_repos(Tail(repos),
                            [seen |-> acc.seen \cup {q.info.full_name},
                             candidates |->
                               Append(acc.candidates,
                                      setitem(q.info, "source", source))],
                            existing_urls, source)
             ELSE add_repos(Tail(repos), acc, existing_urls, source)

\* list.sort(key=..., reverse=True): stable, largest key first
sort_reverse(xs, key(_)) ==
  LET n == Len(xs)
      rank(i) == 1 + Cardinality({j \in 1..n :
                        \/ key(xs[j]) > key(xs[i])
                        \/ key(xs[j]) = key(xs[i]) /\ j < i})
  IN  [p \in 1..n |-> xs[CHOOSE i \in 1..n : rank(i) = p]]

\* what the retrieval layer answers for a repository: its root listing, its
\* Compose files and its Dockerfiles
Answers(listing, served, items) ==
  [listing |-> listing, served |-> served, items |-> items]

NothingServed ==
  [k \in 1..Len(COMPOSE_NAMES) |-> [has_content |-> FALSE, content |-> <<>>]]

ComposeAndTwoDockerfiles ==
  Answers(PlainListing,
          [NothingServed EXCEPT ![1] =
             [has_content |-> TRUE,
              content |-> <<"s","e","r","v","i","c","e","s",":",NL," "," ","a","p","i",":",NL," "," "," "," ","b","u","i","l","d",":",NL," "," "," "," "," "," ","c","o","n","t","e","x","t",":"," ",".","/","a","p","i",NL," "," "," "," "," "," ","t","a","r","g","e","t",":"," ","p","r","o","d",NL," "," "," "," ","e","n","v","_","f","i","l","e",":"," ",".","e","n","v">>]],
          <<[path |-> <<"s","v","c","1","/","D","o","c","k","e","r","f","i","l","e">>,
             content |-> <<"F","R","O","M"," ","p","y","t","h","o","n",":","3",".","1","1",NL,"R","U","N"," ","p","i","p"," ","i","n","s","t","a","l","l"," ","-","r"," ","r","e","q","u","i","r","e","m","e","n","t","s",".","t","x","t",NL,"E","X","P","O","S","E"," ","8","0","0","0",NL,"C","M","D"," ","p","y","t","h","o","n"," ","a","p","p",".","p","y",NL,"H","E","A","L","T","H","C","H","E","C","K"," ","C","M","D"," ","c","u","r","l"," ","-","f"," ","h","t","t","p",":","/","/","l","o","c","a","l","h","o","s","t",":","8","0","0","0","/">>],
            [path |-> <<"s","v","c","2","/","D","o","c","k","e","r","f","i","l","e">>,
             content |-> <<"F","R","O","M"," ","n","o","d","e",":","1","8"," ","A","S"," ","b","u","i","l","d",NL,"R","U","N"," ","n","p","m"," ","c","i",NL,"F","R","O","M"," ","n","g","i","n","x",":","1",".","2","5",NL,"C","O","P","Y"," ","d","i","s","t","/"," ","/","u","s","r","/","s","h","a","r","e","/","n","g","i","n","x","/","h","t","m","l",NL,"E","X","P","O","S","E"," ","8","0",NL,"C","M","D"," ","n","g","i","n","x">>]>>)

OneDockerfile ==
  Answers(PlainListing, NothingServed,
          <<[path |-> <<"D","o","c","k","e","r","f","i","l","e">>,
             content |-> <<"F","R","O","M"," ","n","o","d","e",":","1","8"," ","A","S"," ","b","u","i","l","d",NL,"R","U","N"," ","n","p","m"," ","c","i",NL,"F","R","O","M"," ","n","o","d","e",":","1","8",NL,"C","O","P","Y"," ","-","-","f","r","o","m","=","b","u","i","l","d"," ","/","a","p","p","/","d","i","s","t"," ","/","a","p","p",NL,"E","X","P","O","S","E"," ","3","0","0","0",NL,"C","M","D"," ","n","o","d","e"," ","s","e","r","v","e","r",".","j","s">>]>>)

\* the repositories as the retrieval layer sees them
World ==
  (<<"a","c","m","e","/","s","h","o","p">> :> ComposeAndTwoDockerfiles)
    @@ (<<"a","c","m","e","/","p","a","y">> :> OneDockerfile)
    @@ (<<"z","e","n","/","b","l","o","g">> :> OneDockerfile)

\* deep_validate as a function of the candidate and the retrieved inputs
RECURSIVE AllFlags(_)
AllFlags(ans) ==
  IF Len(ans) = 0 THEN <<>>
  ELSE prefixed_flags(ans[1].path, ans[1].flags) \o AllFlags(Tail(ans))

deep_validate(c, answers) ==
  LET found == check_monorepo_markers(answers.listing)
      comp == check_repo_has_compose_with_build(answers.served)
      c1 == IF comp.found
              THEN setitem(setitem(c, "has_compose_build", TRUE),
                           "compose_services",
                           Len(parse_compose_services(comp.content)))
              ELSE setitem(c, "has_compose_build", FALSE)
      dfs == find_dockerfiles(answers.items)
      c2 == setitem(c1, "dockerfile_count", Len(dfs))
      ans == [k \in 1..Len(dfs) |->
                setitem(analysis_of(dfs[k].content), "path", dfs[k].path)]
      flags == AllFlags(ans)
      c3 == setitem(setitem(c2, "dockerfiles_analyzed", Len(ans)), "flags", flags)
      score == overall_score(ans, comp.found)
      edge_cases == unique_edge_cases(ans, comp)
  IN  IF has_monorepo_markers(found)
        THEN setitem(setitem(setitem(setitem(c,
               "monorepo_markers", found),
               "score", 0),
               "verdict", <<"s","k","i","p",":","m","o","n","o","r","e","p","o"," ","(">> \o join(<<","," ">>, found) \o <<")">>),
               "flags", <<<<RED," ","m","o","n","o","r","e","p","o"," ","t","o","o","l","i","n","g",":"," ">> \o join(<<","," ">>, found)>>)
      ELSE IF no_dockerfiles(dfs, comp)
        THEN setitem(setitem(setitem(c2,
               "score", 0),
               "verdict", <<"s","k","i","p",":","n","o","-","d","o","c","k","e","r","f","i","l","e","s">>),
               "flags", <<<<RED," ","n","o"," ","D","o","c","k","e","r","f","i","l","e","s"," ","f","o","u","n","d">>>>)
      ELSE IF no_analyses(ans)
        THEN setitem(setitem(c3,
               "score", no_analyzable_score(comp)),
               "verdict", <<"s","k","i","p",":","n","o","-","a","n","a","l","y","z","a","b","l","e","-","d","o","c","k","e","r","f","i","l","e","s">>)
      ELSE setitem(setitem(setitem(setitem(setitem(c3,
             "score", score),
             "expose_ports", AllExposePorts(ans)),
             "edge_cases", edge_cases),
             "verdict", branch_verdict(verdict_branch(score, edge_cases, has_red(flags)))),
             "actionable", actionable(has_yellow(flags), has_red(flags)))

\* fault: the flag list outlives the call
all_flags_kept(previous) == previous

\* all_flags = []: a list of the call's own
new_all_flags(previous) == <<>>

\* to_check = min(len(candidates), args.limit)
to_check == min2(Len(candidates), limit)

InitMain ==
  /\ main_pc = "strategy1"
  /\ existing \in {{}, {<<"h","t","t","p","s",":","/","/","g","i","t","h","u","b",".","c","o","m","/","z","e","n","/","b","l","o","g">>}}
  /\ limit \in 0..MaxLimit
  /\ lang = 1
  /\ page = 1
  /\ seen = {}
  /\ candidates = <<>>
  /\ validated = <<>>
  /\ recommended = <<>>
  /\ stretch = <<>>
  /\ maybe = <<>>
  /\ skipped = <<>>
  /\ pc = "idle"
  /\ candidate = <<>>
  /\ mono_markers = <<>>
  /\ compose = NoCompose
  /\ dockerfiles = <<>>
  /\ analyses = <<>>
  /\ all_flags = <<>>
  /\ branch = 0
  /\ raised = FALSE
  /\ dockerfile_text = <<>>
  /\ compose_text = <<>>

\* the variables of deep_validate and of the single-Dockerfile repository
inner_vars ==
  <<pc, candidate, mono_markers, compose, dockerfiles, analyses, all_flags,
    branch, raised, dockerfile_text, compose_text>>

\* one request of strategy 1: a page of one language; an empty page ends the
\* language, the second page too
Strategy1 ==
  /\ main_pc = "strategy1"
  /\ \E repos \in SearchResults :
       LET langs == searched(LANGUAGES)
           acc == add_repos(repos, [seen |-> seen, candidates |-> candidates],
                            existing, <<"m","i","c","r","o","s","e","r","v","i","c","e","s","-">> \o langs[lang])
           last_page == Len(repos) = 0 \/ page = 2
       IN  /\ seen' = acc.seen
           /\ candidates' = acc.candidates
           /\ page' = IF last_page THEN 1 ELSE page + 1
           /\ lang' = IF ~last_page THEN lang
                      ELSE IF lang < Len(langs) THEN lang + 1 ELSE 1
           /\ main_pc' = IF last_page /\ lang = Len(langs)
                           THEN "strategy2" ELSE "strategy1"
  /\ UNCHANGED <<existing, limit, validated, recommended, stretch, maybe,
                 skipped, inner_vars>>

\* one request of strategy 2 or 3: the first page of one language
StrategyN(this, next, prefix) ==
  /\ main_pc = this
  /\ \E repos \in SearchResults :
       LET langs == searched(SubSeq(LANGUAGES, 1, 8))
           acc == add_repos(repos, [seen |-> seen, candidates |-> candidates],
                            existing, prefix \o langs[lang])
       IN  /\ seen' = acc.seen
           /\ candidates' = acc.candidates
           /\ lang' = IF lang < Len(langs) THEN lang + 1 ELSE 1
           /\ main_pc' = IF lang = Len(langs) THEN next ELSE this
  /\ UNCHANGED <<existing, limit, page, validated, recommended, stretch,
                 maybe, skipped, inner_vars>>

Strategy2 == StrategyN("strategy2", "strategy3", <<"d","o","c","k","e","r","-">>)

Strategy3 == StrategyN("strategy3", "sort", <<"c","o","m","p","o","s","e","-">>)

stars_of(c) == get(c, "stars", 0)

score_of(c) == c["score"]

gaps_of(c) == Len(get(c, "edge_cases", <<>>))

\* candidates.sort(key=stars, reverse=True)
SortCandidates ==
  /\ main_pc = "sort"
  /\ candidates' = sort_reverse(candidates, stars_of)
  /\ main_pc' = "validate"
  /\ UNCHANGED <<existing, limit, lang, page, seen, validated, recommended,
                 stretch, maybe, skipped, inner_vars>>

\* the loop takes the next candidate and calls deep_validate
BeginValidate ==
  /\ main_pc = "validate"
  /\ pc = "idle"
  /\ Len(validated) < to_check
  /\ pc' = "start"
  /\ candidate' = candidates[Len(validated) + 1]
  /\ mono_markers' = <<>>
  /\ compose' = NoCompose
  /\ dockerfiles' = <<>>
  /\ analyses' = <<>>
  /\ all_flags' = new_all_flags(all_flags)
  /\ branch' = 0
  /\ UNCHANGED <<raised, dockerfile_text, compose_text, main_vars>>

\* the steps of deep_validate, the retrieval layer answering for the
\* candidate's repository
MainCheckMonorepo ==
  /\ main_pc = "validate"
  /\ pc = "start"
  /\ CheckMonorepoOn({World[candidate["full_name"]].listing})

MainFetchCompose ==
  /\ main_pc = "validate"
  /\ pc = "compose"
  /\ FetchComposeOn({World[candidate["full_name"]].served})

MainFindDockerfiles ==
  /\ main_pc = "validate"
  /\ pc = "find"
  /\ FindDockerfilesOn({World[candidate["full_name"]].items})

\* deep_validate returned: the dict, which is the one in the candidate list,
\* is appended to validated
Collect ==
  /\ main_pc = "validate"
  /\ pc = "returned"
  /\ validated' = Append(validated, candidate)
  /\ candidates' = [candidates EXCEPT ![Len(validated) + 1] = candidate]
  /\ pc' = "idle"
  /\ UNCHANGED <<candidate, mono_markers, compose, dockerfiles, analyses,
                 all_flags, branch, raised, dockerfile_text, compose_text, main_pc,
                 existing, limit, lang, page, seen, recommended, stretch, maybe, skipped>>

\* the tier buckets and their sorting
SeparateTiers ==
  /\ main_pc = "validate"
  /\ pc = "idle"
  /\ Len(validated) = to_check
  /\ recommended' =
       sort_reverse(SelectSeq(validated, LAMBDA c : c["verdict"] = <<"r","e","c","o","m","m","e","n","d","e","d">>),
                    score_of)
  /\ stretch' =
       sort_reverse(SelectSeq(validated, LAMBDA c : c["verdict"] = <<"s","t","r","e","t","c","h">>),
                    gaps_of)
  /\ maybe' =
       sort_reverse(SelectSeq(validated, LAMBDA c : c["verdict"] = <<"m","a","y","b","e">>),
                    score_of)
  /\ skipped' = SelectSeq(validated, LAMBDA c : startswith(c["verdict"], <<"s","k","i","p">>))
  /\ main_pc' = "done"
  /\ UNCHANGED <<existing, limit, lang, page, seen, candidates, validated,
                 inner_vars>>

NextMain ==
  \/ Strategy1
  \/ Strategy2
  \/ Strategy3
  \/ SortCandidates
  \/ BeginValidate
  \/ MainCheckMonorepo
  \/ MainFetchCompose
  \/ MainFindDockerfiles
  \/ AnalyzeNext
  \/ Aggregate
  \/ Collect
  \/ SeparateTiers

SpecMain == InitMain /\ [][NextMain]_vars


(***************************************************************************)
(* deep_validate over a repository whose docker-compose.yml is put         *)
(* together from fragments in any order, beside one Dockerfile.            *)
(***************************************************************************)
MaxComposeFragments == 3

\* the fragments a Compose file is written from
ComposeFragments ==
  { <<"s","e","r","v","i","c","e","s",":">>,
    <<" "," ","w","e","b",":",NL," "," "," "," ","b","u","i","l","d",":"," ",".">>,
    <<" "," ","d","b",":",NL," "," "," "," ","i","m","a","g","e",":"," ","b","u","i","l","d",":","l","a","t","e","s","t">>,
    <<" "," ","a","p","i",":",NL," "," "," "," ","b","u","i","l","d",":",NL," "," "," "," "," "," ","c","o","n","t","e","x","t",":"," ",".","/","a","p","i",NL," "," "," "," "," "," ","d","o","c","k","e","r","f","i","l","e",":"," ","d","e","v",".","d","o","c","k","e","r","f","i","l","e">>,
    <<" "," "," "," "," "," ","a","r","g","s",":",NL," "," "," "," "," "," "," "," ","v",":"," ","1">>,
    <<" "," "," "," "," "," ","A","R","G","S",":",NL," "," "," "," "," "," "," "," ","v",":"," ","1">>,
    <<" "," "," "," ","h","e","a","l","t","h","c","h","e","c","k",":",NL," "," "," "," "," "," ","t","e","s","t",":"," ","c","u","r","l">>,
    <<" "," "," "," ","e","n","v","_","f","i","l","e",":"," ",".","e","n","v">>,
    <<" "," "," "," ","E","N","V","_","F","I","L","E",":"," ",".","e","n","v">>,
    <<"v","o","l","u","m","e","s",":">>,
    <<"x","-","c","o","m","m","o","n",":",NL," "," ","s","e","r","v","i","c","e","s",":">> }

\* the Dockerfile beside it: a plain one, or one with every pipeline gap
\* on two lines
ComposeDockerfiles ==
  { <<"F","R","O","M"," ","n","o","d","e",":","1","8",NL,"R","U","N"," ","n","p","m"," ","c","i",NL,"C","M","D"," ","n","o","d","e"," ","s","e","r","v","e","r",".","j","s">>,
    <<"A","R","G"," ","V","=","1",NL,"A","R","G"," ","W","=","2",NL,"F","R","O","M"," ","n","o","d","e",":","1","8",NL,"H","E","A","L","T","H","C","H","E","C","K"," ","C","M","D"," ","t","r","u","e",NL,"H","E","A","L","T","H","C","H","E","C","K"," ","C","M","D"," ","f","a","l","s","e",NL,"R","U","N"," ","-","-","m","o","u","n","t","=","t","y","p","e","=","s","e","c","r","e","t",",","i","d","=","k"," ","n","p","m"," ","c","i",NL,"R","U","N"," ","-","-","m","o","u","n","t","=","t","y","p","e","=","s","s","h"," ","m","a","k","e",NL,"A","D","D"," ","h","t","t","p","s",":","/","/","e","x","a","m","p","l","e",".","c","o","m","/","a"," ","/","a",NL,"A","D","D"," ","h","t","t","p",":","/","/","e","x","a","m","p","l","e",".","c","o","m","/","b"," ","/","b",NL,"C","O","P","Y"," ","-","-","l","i","n","k"," ","a"," ","/","a",NL,"C","O","P","Y"," ","-","-","l","i","n","k"," ","-","-","c","h","m","o","d","=","7","5","5"," ","b"," ","/","b",NL,"C","O","P","Y"," ","-","-","c","h","m","o","d","=","6","4","4"," ","c"," ","/","c",NL,"C","M","D"," ","n","o","d","e"," ","s","e","r","v","e","r",".","j","s">> }

\* the first Compose request is answered with the text the fragments make
ComposeTextServed ==
  [k \in 1..Len(COMPOSE_NAMES) |->
     IF k = 1
       THEN [has_content |-> TRUE, content |-> text_of(compose_text)]
       ELSE [has_content |-> FALSE, content |-> <<>>]]

InitCompose ==
  /\ Entry(InitialCandidate)
  /\ dockerfile_text = <<>>
  /\ compose_text = <<>>
  /\ MainOff

\* the repository's Compose file gets one more fragment
WriteComposeFragment ==
  /\ pc = "start"
  /\ Len(compose_text) < MaxComposeFragments
  /\ \E f \in ComposeFragments : compose_text' = Append(compose_text, f)
  /\ UNCHANGED <<pc, candidate, mono_markers, compose, dockerfiles, analyses,
                 all_flags, branch, raised, dockerfile_text, main_vars>>

ComposeCheckMonorepo ==
  /\ Len(compose_text) > 0
  /\ CheckMonorepoOn({PlainListing})

ComposeFetchCompose == FetchComposeOn({ComposeTextServed})

\* the code search finds the one Dockerfile
ComposeFindDockerfiles ==
  FindDockerfilesOn({<<[path |-> <<"D","o","c","k","e","r","f","i","l","e">>, content |-> d]>> :
                       d \in ComposeDockerfiles})

NextCompose ==
  \/ WriteComposeFragment
  \/ ComposeCheckMonorepo
  \/ ComposeFetchCompose
  \/ ComposeFindDockerfiles
  \/ AnalyzeNext
  \/ Aggregate

SpecCompose == InitCompose /\ [][NextCompose]_vars


(***************************************************************************)
(* Properties.                                                             *)
(***************************************************************************)
\* deep_validate has returned
Returned == pc = "returned"

\* deep_validate has returned from the score-based path
ScorePath == pc = "returned" /\ Len(mono_markers) = 0 /\ Len(analyses) > 0

\* some analyzed Dockerfile has a HEALTHCHECK instruction line
HasHealthcheckLine ==
  \E k \in 1..Len(dockerfiles) :
    \E l \in 1..Len(splitlines(dockerfiles[k].content)) :
      MatchInstr(splitlines(dockerfiles[k].content)[l], <<"H","E","A","L","T","H","C","H","E","C","K">>)

\* the analyzer on every catalogued text and on the empty text
AnalyzerScoresInRange ==
  \A c \in DockerfileContents \cup {<<>>} :
    analyze_dockerfile(c, <<>>).score \in 0..100

\* C1: every score is an integer in [0,100]: the score of every
\* DockerfileAnalysis, and the score of the verdict on every path
C1_ScoresInRange ==
  /\ AnalyzerScoresInRange
  /\ \A k \in 1..Len(analyses) : analyses[k].score \in 0..100
  /\ "score" \in DOMAIN candidate => candidate["score"] \in 0..100

\* a score-path verdict over a Dockerfile whose running total is negative
C1_Witness ==
  /\ ScorePath
  /\ \E k \in 1..Len(dockerfiles) :
       running_score(dockerfiles[k].content) < 0 /\ analyses[k].score = 0
  /\ candidate["score"] \in 0..100

\* no text makes the analyzer or the Compose parser raise
ParsersNeverRaise ==
  /\ \A c \in DockerfileContents \cup {<<>>} : ~analyze_dockerfile_raises(c)
  /\ \A c \in ComposeContents \cup {<<>>} : ~parse_compose_raises(c)

\* C2: the classifier has no failure outcome: the analyzer and the Compose
\* parser return for every text, and every evaluation of deep_validate ends
\* in a tier assignment, never in an exception
C2_NeverFails ==
  /\ ParsersNeverRaise
  /\ ~raised
  /\ pc # "crashed"
  /\ Returned =>
       /\ "verdict" \in DOMAIN candidate
       /\ \/ candidate["verdict"] \in {<<"r","e","c","o","m","m","e","n","d","e","d">>, <<"s","t","r","e","t","c","h">>, <<"m","a","y","b","e">>}
          \/ startswith(candidate["verdict"], <<"s","k","i","p",":">>)

\* a verdict over a Dockerfile of bare instruction keywords, with Compose
C2_Witness ==
  /\ Returned
  /\ compose.found
  /\ \E k \in 1..Len(dockerfiles) : dockerfiles[k].content = <<"F","R","O","M"," ",NL,"C","O","P","Y"," ",NL,"E","X","P","O","S","E"," ">>
  /\ "verdict" \in DOMAIN candidate

\* a root listing holds a marker file iff check_monorepo_markers finds one
MarkersFoundIffListed ==
  \A data \in RootListings :
    Len(check_monorepo_markers(data)) > 0
      <=> \E it \in data.items :
            /\ it.type = "file"
            /\ \E k \in 1..Len(MONOREPO_MARKERS) : MONOREPO_MARKERS[k] = it.name

\* C3 as stated: a root listing with a monorepo marker file gives score 0 and
\* tier "skip:monorepo"
C3_Original ==
  Returned /\ Len(mono_markers) > 0 =>
    candidate["score"] = 0 /\ candidate["verdict"] = <<"s","k","i","p",":","m","o","n","o","r","e","p","o">>

\* C3 amended: a root listing with a monorepo marker file gives score 0 and the
\* tier string "skip:monorepo (<markers joined by ', '>)"; the rule is
\* evaluated first: neither Compose nor Dockerfiles are consulted
C3_MonorepoWins ==
  /\ MarkersFoundIffListed
  /\ Returned /\ Len(mono_markers) > 0 =>
       /\ candidate["score"] = 0
       /\ candidate["verdict"] = <<"s","k","i","p",":","m","o","n","o","r","e","p","o"," ","(">> \o join(<<","," ">>, mono_markers) \o <<")">>
       /\ startswith(candidate["verdict"], <<"s","k","i","p",":","m","o","n","o","r","e","p","o">>)
       /\ "has_compose_build" \notin DOMAIN candidate
       /\ "dockerfile_count" \notin DOMAIN candidate

\* the monorepo verdict for a listing with two marker files
C3_Witness ==
  /\ Returned
  /\ mono_markers = <<<<"n","x",".","j","s","o","n">>, <<"B","U","I","L","D">>>>
  /\ candidate["verdict"] = <<"s","k","i","p",":","m","o","n","o","r","e","p","o"," ","(","n","x",".","j","s","o","n",","," ","B","U","I","L","D",")">>

\* C4: no monorepo marker, no Compose file with a build directive and zero
\* Dockerfiles give score 0 and tier skip:no-dockerfiles
C4_NoDockerfiles ==
  Returned /\ Len(mono_markers) = 0 /\ ~compose.found /\ Len(dockerfiles) = 0 =>
    candidate["score"] = 0 /\ candidate["verdict"] = <<"s","k","i","p",":","n","o","-","d","o","c","k","e","r","f","i","l","e","s">>

C4_Witness ==
  /\ Returned
  /\ "dockerfile_count" \in DOMAIN candidate
  /\ ~compose.found
  /\ Len(dockerfiles) = 0
  /\ candidate["verdict"] = <<"s","k","i","p",":","n","o","-","d","o","c","k","e","r","f","i","l","e","s">>

\* C5: past the two short-circuits and with no analysis produced, the tier is
\* skip:no-analyzable-dockerfiles and the score is 20 with a Compose build,
\* 0 without
C5_NoAnalyzable ==
  Returned /\ Len(mono_markers) = 0 /\ ~no_dockerfiles(dockerfiles, compose)
    /\ Len(analyses) = 0 =>
      /\ candidate["verdict"] = <<"s","k","i","p",":","n","o","-","a","n","a","l","y","z","a","b","l","e","-","d","o","c","k","e","r","f","i","l","e","s">>
      /\ candidate["score"] = IF compose.found THEN 20 ELSE 0

C5_Witness ==
  /\ Returned
  /\ compose.found
  /\ Len(analyses) = 0
  /\ candidate["dockerfiles_analyzed"] = 0
  /\ candidate["score"] = 20

\* C6: on the score-based path the score is
\* clamp(trunc(S/n + 10*[compose] + 5*[n >= 2] - 15*k), 0, 100)
C6_ScoreFormula ==
  ScorePath =>
    LET n == Len(analyses)
        S == sum_scores(analyses)
        k == Cardinality({i \in 1..n : ~analyses[i].is_self_contained})
        num == S + n * ((IF compose.found THEN 10 ELSE 0)
                        + (IF n >= 2 THEN 5 ELSE 0) - 15 * k)
        t == IF num >= 0 THEN num \div n ELSE -((-num) \div n)
    IN  candidate["score"] = (IF t < 0 THEN 0 ELSE IF t > 100 THEN 100 ELSE t)

\* two Dockerfiles, both not self-contained, an average that is no integer
C6_Witness ==
  /\ ScorePath
  /\ Len(analyses) = 2
  /\ \A k \in 1..2 : ~analyses[k].is_self_contained
  /\ sum_scores(analyses) % 2 = 1
  /\ candidate["score"] > 0

C8_CatchAllDead == branch # 4

\* the case next to it: score >= 60, edge cases and a red flag (third arm)
C8_Witness ==
  /\ ScorePath
  /\ branch = 3
  /\ candidate["score"] >= 60
  /\ has_red(candidate["flags"])

\* C9: a HEALTHCHECK instruction in an analyzed Dockerfile and a score >= 60
\* give tier stretch, and the edge cases hold the healthcheck entry whose fix
\* hint names the readiness-probe mapping
C9_HealthcheckStretch ==
  ScorePath /\ HasHealthcheckLine /\ candidate["score"] >= 60 =>
    /\ candidate["verdict"] = <<"s","t","r","e","t","c","h">>
    /\ \E k \in 1..Len(candidate["edge_cases"]) :
         /\ candidate["edge_cases"][k].id = "healthcheck"
         /\ candidate["edge_cases"][k].fix
              = "generate.go: map HEALTHCHECK to K8s readinessProbe"

\* the same with a red flag present
C9_Witness ==
  /\ ScorePath
  /\ HasHealthcheckLine
  /\ candidate["score"] >= 60
  /\ has_red(candidate["flags"])
  /\ candidate["verdict"] = <<"s","t","r","e","t","c","h">>

\* C10: every recommended verdict has score >= 60, only self-contained
\* Dockerfiles and no edge cases
C10_RecommendedSelfContained ==
  Returned /\ candidate["verdict"] = <<"r","e","c","o","m","m","e","n","d","e","d">> =>
    /\ candidate["score"] >= 60
    /\ \A k \in 1..Len(analyses) : analyses[k].is_self_contained
    /\ Len(candidate["edge_cases"]) = 0

\* the ids of a list of edge cases
IdsOf(ecs) == {ecs[k].id : k \in 1..Len(ecs)}

\* C11: for every verdict, actionable (as the report reads it, absent
\* counting as false) is true iff some flag of the verdict is yellow and
\* none is red
C11_Actionable ==
  Returned =>
    LET flags == candidate["flags"]
    IN  get(candidate, "actionable", FALSE)
          <=> /\ \E k \in 1..Len(flags) : \E i \in 1..Len(flags[k]) : flags[k][i] = YELLOW
              /\ \A k \in 1..Len(flags) : \A i \in 1..Len(flags[k]) : flags[k][i] # RED

\* a verdict with yellow flags only, and so actionable
C11_Witness ==
  /\ ScorePath
  /\ candidate["actionable"] = TRUE
  /\ has_yellow(candidate["flags"])

\* C12 as stated: every verdict, the short-circuit ones included, carries
\* score, tier, flags, edge cases and actionable
C12_Original ==
  Returned =>
    {"score", "verdict", "flags", "edge_cases", "actionable"} \subseteq DOMAIN candidate

\* C12 amended: every verdict carries score, tier and flags; the edge-case
\* list and actionable are carried by the verdicts of the score-based path and
\* by no short-circuit verdict
C12_FieldsCarried ==
  Returned =>
    /\ {"score", "verdict", "flags"} \subseteq DOMAIN candidate
    /\ "edge_cases" \in DOMAIN candidate <=> ScorePath
    /\ "actionable" \in DOMAIN candidate <=> ScorePath

\* a monorepo verdict: three of the five fields
C12_Witness ==
  /\ Returned
  /\ Len(mono_markers) > 0
  /\ {"score", "verdict", "flags"} \subseteq DOMAIN candidate
  /\ "edge_cases" \notin DOMAIN candidate
  /\ "actionable" \notin DOMAIN candidate

\* C13: on the score-based path no two entries of the verdict's edge-case
\* list share an id, and the ids are those reported for any analyzed
\* Dockerfile or, with a Compose build file, by the Compose detector
C13_EdgeCasesUnique ==
  ScorePath =>
    LET ecs == candidate["edge_cases"]
    IN  /\ \A i, j \in 1..Len(ecs) : ecs[i].id = ecs[j].id => i = j
        /\ IdsOf(ecs) =
             UNION {IdsOf(analyses[k].edge_cases) : k \in 1..Len(analyses)}
               \cup (IF compose.found
                       THEN IdsOf(detect_compose_edge_cases(compose.content))
                       ELSE {})

\* two Dockerfiles with a BuildKit mount each, and a Compose gap besides
C13_Witness ==
  /\ ScorePath
  /\ Len(analyses) = 2
  /\ \A k \in 1..2 : "buildkit-mount" \in IdsOf(analyses[k].edge_cases)
  /\ compose.found
  /\ Len(detect_compose_edge_cases(compose.content)) > 0
  /\ Len(candidate["edge_cases"]) >= 2

(***************************************************************************)
(* Properties of the analysis of one Dockerfile (SpecAnalyze).             *)
(***************************************************************************)
\* the one Dockerfile has been analyzed
Analyzed == Len(dockerfiles) = 1 /\ Len(analyses) = 1

\* the lines of the analyzed Dockerfile
TextLines == splitlines(dockerfiles[1].content)

\* how many FROM lines: the stages
FromCount ==
  Cardinality({k \in 1..Len(TextLines) : MatchInstr(TextLines[k], <<"F","R","O","M">>)})

\* a COPY line with --from= is an aliased copy, any other COPY line a plain one
IsAliasedCopy(l) == MatchInstrFlag(l, <<"C","O","P","Y">>, <<"-","-","f","r","o","m","=">>)

IsPlainCopy(l) == MatchInstr(l, <<"C","O","P","Y">>) /\ ~IsAliasedCopy(l)

\* a source path without its leading "./"
RECURSIVE DropDotSlash(_)
DropDotSlash(src) ==
  IF Len(src) >= 2 /\ src[1] = "." /\ src[2] = "/"
    THEN DropDotSlash(SubSeq(src, 3, Len(src)))
    ELSE src

\* the first path segment of a source
FirstSegment(src) == splitSep(DropDotSlash(src), "/")[1]

\* the sources of the plain copies, as (line, token) positions, whose first
\* path segment is one of dirs
SourcesIn(dirs) ==
  {<<k, i>> \in (1..Len(TextLines)) \X (1..12) :
     /\ IsPlainCopy(TextLines[k])
     /\ i >= 2
     /\ i < Len(split(TextLines[k]))
     /\ FirstSegment(split(TextLines[k])[i]) \in dirs}

\* how many flags of the analysis satisfy P
CountFlags(P(_)) ==
  Cardinality({k \in 1..Len(analyses[1].flags) : P(analyses[1].flags[k])})

IsRedCopyFlag(f) == startswith(f, <<RED," ","C","O","P","Y"," ","f","r","o","m"," ","'">>)

IsDistFlag(f) == f = <<RED," ","C","O","P","Y"," ","f","r","o","m"," ","'","d","i","s","t","/","'"," ",EMDASH," ","l","i","k","e","l","y"," ","r","e","q","u","i","r","e","s"," ","p","r","e","-","b","u","i","l","d"," ","s","t","e","p">>

IsProperFlag(f) == f = <<GREEN," ","u","s","e","s"," ","C","O","P","Y"," ","-","-","f","r","o","m","="," ","(","p","r","o","p","e","r"," ","m","u","l","t","i","-","s","t","a","g","e",")">>

IsInstallFlag(f) == f = <<GREEN," ","h","a","s"," ","d","e","p","e","n","d","e","n","c","y"," ","i","n","s","t","a","l","l"," ","s","t","e","p">>

IsExposeFlag(f) == startswith(f, <<GREEN," ","E","X","P","O","S","E"," ">>)

IsNoCmdFlag(f) == f = <<YELLOW," ","n","o"," ","C","M","D","/","E","N","T","R","Y","P","O","I","N","T">>

IsBaseImageFlag(f) == startswith(f, <<YELLOW," ","n","o","n","-","s","t","a","n","d","a","r","d"," ","b","a","s","e"," ","i","m","a","g","e",":"," ">>)

\* the running total without the artifact penalty and the aliased-copy reward,
\* read off the flags the analysis recorded
OtherTerms ==
  50
  + (IF FromCount > 1 THEN 15 ELSE 0)
  + (IF has_builder_stage(TextLines) THEN 5 ELSE 0)
  + (IF CountFlags(IsInstallFlag) > 0 THEN 10 ELSE 0)
  + (IF CountFlags(IsExposeFlag) > 0 THEN 5 ELSE 0)
  + (IF CountFlags(IsNoCmdFlag) > 0 THEN -5 ELSE 5)
  - 5 * CountFlags(IsBaseImageFlag)

\* C14: is_self_contained is true iff no artifact-copy violation was recorded
\* and (an install step was found or there is more than one FROM line)
C14_SelfContained ==
  Analyzed =>
    (analyses[1].is_self_contained
       <=> /\ CountFlags(IsRedCopyFlag) = 0
           /\ (CountFlags(IsInstallFlag) > 0 \/ FromCount > 1))

\* self-contained by its stages alone, without an install step
C14_Witness ==
  /\ Analyzed
  /\ analyses[1].is_self_contained
  /\ CountFlags(IsInstallFlag) = 0
  /\ FromCount > 1

C16_DistCopy ==
  Analyzed /\ SourcesIn({<<"d","i","s","t">>}) # {} =>
    /\ ~analyses[1].is_self_contained
    /\ CountFlags(IsDistFlag) = Cardinality(SourcesIn({<<"d","i","s","t">>}))
    /\ CountFlags(IsRedCopyFlag) >= CountFlags(IsDistFlag)
    /\ running_score(dockerfiles[1].content)
         = OtherTerms - 30 * CountFlags(IsRedCopyFlag)

\* multi-stage with an install step, and two artifact sources of which one
\* is dist: 60 off
C16_Witness ==
  /\ Analyzed
  /\ FromCount > 1
  /\ CountFlags(IsInstallFlag) > 0
  /\ SourcesIn({<<"d","i","s","t">>}) # {}
  /\ CountFlags(IsRedCopyFlag) = 2
  /\ running_score(dockerfiles[1].content) = OtherTerms - 60

\* C17: a repository whose only Dockerfile is single-stage, has a plain COPY
\* from an artifact directory and no install step gets a red flag,
\* is_self_contained = false, a score below 40 and tier skip:low-score
C17_ArtifactLowScore ==
  ScorePath /\ Analyzed /\ FromCount <= 1
    /\ SourcesIn(BUILD_ARTIFACT_DIRS) # {}
    /\ ~has_install(TextLines) =>
      /\ has_red(candidate["flags"])
      /\ ~analyses[1].is_self_contained
      /\ candidate["score"] < 40
      /\ candidate["verdict"] = <<"s","k","i","p",":","l","o","w","-","s","c","o","r","e">>

\* C20: the Dockerfile score is the clamped sum of the listed terms, the
\* artifact penalty counting the plain-COPY sources whose first path segment
\* is an artifact directory
C20_DockerfileScore ==
  Analyzed =>
    LET total ==
          50
          + (IF FromCount > 1 THEN 15 ELSE 0)
          + (IF has_builder_stage(TextLines) THEN 5 ELSE 0)
          - 30 * Cardinality(SourcesIn(BUILD_ARTIFACT_DIRS))
          + (IF (\E k \in 1..Len(TextLines) : IsAliasedCopy(TextLines[k]))
                  /\ SourcesIn(BUILD_ARTIFACT_DIRS) = {}
               THEN 5 ELSE 0)
          + (IF has_install(TextLines) THEN 10 ELSE 0)
          + (IF Len(expose_ports(TextLines)) > 0 THEN 5 ELSE 0)
          + (IF has_cmd(TextLines) THEN 5 ELSE -5)
          - 5 * Len(nonstandard_images(TextLines))
    IN  analyses[1].score
          = (IF total < 0 THEN 0 ELSE IF total > 100 THEN 100 ELSE total)

(***************************************************************************)
(* Properties of the run over many repositories (SpecMain).                *)
(***************************************************************************)
\* the keys check_repo_quality and the search strategy give a candidate
InfoKeys ==
  {"url", "full_name", "stars", "language", "size_kb", "description",
   "updated", "source"}

\* a candidate as it entered deep_validate
InfoOf(c) == [k \in InfoKeys |-> c[k]]

\* what deep_validate added to it: score, tier, flags, edge cases, actionable
\* and the counts
VerdictOf(c) == [k \in DOMAIN c \ InfoKeys |-> c[k]]

OneVerdictEach ==
  /\ \A i, j \in 1..Len(candidates) :
       candidates[i]["full_name"] = candidates[j]["full_name"] => i = j
  /\ Len(validated) <= to_check
  /\ \A i \in 1..Len(validated) : validated[i] = candidates[i]
  /\ main_pc = "done" =>
       /\ Len(validated) = to_check
       /\ Len(recommended) + Len(stretch) + Len(maybe) + Len(skipped)
            = Len(validated)
       /\ \A b \in {recommended, stretch, maybe, skipped} :
            \A k \in 1..Len(b) : \E i \in 1..Len(validated) : b[k] = validated[i]

\* a step keeps every verdict already emitted
VerdictsKept ==
  \A i \in 1..Len(validated) :
    Len(validated') >= i /\ validated'[i] = validated[i]

\* C19: a repository enters the candidate list at most once, each of the
\* first min(#candidates, limit) candidates is validated exactly once, and no
\* later validation or bucket sort changes an emitted verdict
C19_OneVerdictNeverChanged == []OneVerdictEach /\ [][VerdictsKept]_vars

\* three candidates, the limit cuts to two, both in their buckets
C19_Witness ==
  /\ main_pc = "done"
  /\ Len(candidates) = 3
  /\ limit = 2
  /\ Len(validated) = 2
  /\ Len(recommended) = 1
  /\ Len(stretch) = 1

(***************************************************************************)
(* Further properties of the analysis of one Dockerfile (SpecAnalyze).     *)
(***************************************************************************)
\* the red flag that cites directory d
RedFlagFor(d) == <<RED," ","C","O","P","Y"," ","f","r","o","m"," ","'">> \o d \o <<"/","'"," ",EMDASH," ","l","i","k","e","l","y"," ","r","e","q","u","i","r","e","s"," ","p","r","e","-","b","u","i","l","d"," ","s","t","e","p">>

\* C21: for every name of the artifact-directory catalog, a plain COPY with
\* a source whose first path segment is that name records a red flag citing
\* it, subtracts 30 and makes is_self_contained false
C21_ArtifactCatalog ==
  Analyzed =>
    \A d \in BUILD_ARTIFACT_DIRS :
      SourcesIn({d}) # {} =>
        /\ \E k \in 1..Len(analyses[1].flags) : analyses[1].flags[k] = RedFlagFor(d)
        /\ ~analyses[1].is_self_contained
        /\ CountFlags(IsRedCopyFlag) >= 1
        /\ running_score(dockerfiles[1].content)
             = OtherTerms - 30 * CountFlags(IsRedCopyFlag)

\* a COPY line that carries a --from= flag, first or after other flags
CarriesFrom(l) ==
  /\ MatchInstr(l, <<"C","O","P","Y">>)
  /\ \E i \in 2..Len(split(l)) :
       /\ startswith(split(l)[i], <<"-","-","f","r","o","m","=">>)
       /\ \A j \in 2..(i - 1) : startswith(split(l)[j], <<"-","-">>)

\* C22: a COPY that carries --from= is never examined for artifact sources:
\* when every COPY line of a Dockerfile carries it, no red flag is recorded
\* and no 30 is subtracted, also with another flag before --from=
C22_AliasedCopyExempt ==
  Analyzed
    /\ (\A k \in 1..Len(TextLines) :
          MatchInstr(TextLines[k], <<"C","O","P","Y">>) => CarriesFrom(TextLines[k])) =>
      /\ CountFlags(IsRedCopyFlag) = 0
      /\ running_score(dockerfiles[1].content)
           = OtherTerms + (IF CountFlags(IsProperFlag) > 0 THEN 5 ELSE 0)

\* C23: base_images holds every image once, and a non-allowlisted image
\* named by several FROM lines gets one yellow flag and one -5
C23_BaseImagesSet ==
  Analyzed =>
    LET imgs == analyses[1].base_images
        flags == analyses[1].flags
    IN  /\ \A i, j \in 1..Len(imgs) : imgs[i] = imgs[j] => i = j
        /\ \A i, j \in 1..Len(flags) :
             IsBaseImageFlag(flags[i]) /\ flags[i] = flags[j] => i = j
        /\ CountFlags(IsBaseImageFlag)
             = Cardinality({nonstandard_images(TextLines)[k] :
                              k \in 1..Len(nonstandard_images(TextLines))})

\* the mount types among secret, cache and ssh that occur in the Dockerfile
MountTypesFound ==
  {t \in {<<"s","e","c","r","e","t">>, <<"c","a","c","h","e">>, <<"s","s","h">>} :
     \E k \in 1..Len(TextLines) : \E p \in 1..Len(TextLines[k]) :
       OccursAtI(TextLines[k], <<"-","-","m","o","u","n","t","=","t","y","p","e","=">> \o t, p)}

\* C24: with build mounts of type secret, cache or ssh there is exactly one
\* buildkit-mount edge case, and its description lists every one of those
\* types found in the file, and none but those
C24_MountTypesListed ==
  Analyzed /\ MountTypesFound # {} =>
    LET ecs == analyses[1].edge_cases
        ms == {k \in 1..Len(ecs) : ecs[k].id = "buildkit-mount"}
    IN  /\ Cardinality(ms) = 1
        /\ \A k \in ms :
             ecs[k].desc = <<"R","U","N"," ","-","-","m","o","u","n","t","=","t","y","p","e","=">> \o join(<<",">>, sorted(MountTypesFound))

(***************************************************************************)
(* Properties of the Compose parsers (SpecCompose).                        *)
(***************************************************************************)
\* the ids of a list of edge cases are pairwise different
DistinctIds(ecs) == \A i, j \in 1..Len(ecs) : ecs[i].id = ecs[j].id => i = j

\* deep_validate has returned after it found a Compose file with a build
ComposeParsed == ScorePath /\ compose.found

\* the lines of the Compose file found
ComposeLines == splitlines(compose.content)

\* C25: the edge-case list of a Dockerfile and the edge-case list of a
\* Compose file each hold every id at most once, however many lines match
\* a pattern, and the two lists share no id
C25_EdgeCaseIds ==
  ComposeParsed =>
    /\ DistinctIds(detect_compose_edge_cases(compose.content))
    /\ \A k \in 1..Len(analyses) :
         /\ DistinctIds(analyses[k].edge_cases)
         /\ IdsOf(analyses[k].edge_cases)
              \cap IdsOf(detect_compose_edge_cases(compose.content)) = {}

\* a Dockerfile with each of its six patterns on two lines and a Compose
\* file with build args given twice
C25_Witness ==
  /\ ComposeParsed
  /\ Cardinality(IdsOf(analyses[1].edge_cases)) = 6
  /\ \E i, j \in 1..Len(compose_text) :
       i < j /\ compose_text[i] = compose_text[j]
             /\ compose_text[i] = <<" "," "," "," "," "," ","a","r","g","s",":",NL," "," "," "," "," "," "," "," ","v",":"," ","1">>
  /\ "compose-build-args" \in IdsOf(detect_compose_edge_cases(compose.content))
  /\ "compose-build-args" \in IdsOf(candidate["edge_cases"])
  /\ "healthcheck" \in IdsOf(candidate["edge_cases"])

\* C26: detect_compose_edge_cases matches case-insensitively: a Compose
\* text and the same text with its feature keys in lower case yield the
\* same edge-case ids
C26_CaseInsensitive ==
  ComposeParsed =>
    IdsOf(detect_compose_edge_cases(compose.content))
      = IdsOf(detect_compose_edge_cases(lower(compose.content)))

\* the lines that hold a build key
BuildKeyLines ==
  {k \in 1..Len(ComposeLines) : startswith(strip(ComposeLines[k]), <<"b","u","i","l","d",":">>)}

\* C27: a service is returned only for a build: sub-key of its own, never
\* for a line that has the text build: inside a value; so there are no more
\* returned services than lines with a build key, and each has has_build
C27_BuildSubKey ==
  ComposeParsed =>
    LET svcs == parse_compose_services(compose.content)
    IN  /\ \A k \in 1..Len(svcs) : svcs[k].has_build
        /\ Len(svcs) <= Cardinality(BuildKeyLines)

\* a services: key at column 0
HasTopLevelServices ==
  \E k \in 1..Len(ComposeLines) :
    /\ startswith(ComposeLines[k], <<"s","e","r","v","i","c","e","s",":">>)
    /\ strip(ComposeLines[k]) = <<"s","e","r","v","i","c","e","s",":">>

\* C28: the services region is entered only on a services: line at column
\* 0; without one, an indented services: opens no region and no service
\* is returned
C28_TopLevelServices ==
  ComposeParsed /\ ~HasTopLevelServices =>
    parse_compose_services(compose.content) = <<>>

(***************************************************************************)
(* Further properties of deep_validate over the catalogue (Spec).          *)
(***************************************************************************)
\* C29: every verdict skip:no-analyzable-dockerfiles belongs to a
\* repository with a Compose build and zero Dockerfiles and has score 20;
\* the variant with score 0 does not occur
C29_NoAnalyzableHasCompose ==
  Returned /\ candidate["verdict"] = <<"s","k","i","p",":","n","o","-","a","n","a","l","y","z","a","b","l","e","-","d","o","c","k","e","r","f","i","l","e","s">> =>
    /\ candidate["has_compose_build"] = TRUE
    /\ compose.found
    /\ candidate["dockerfile_count"] = 0
    /\ Len(dockerfiles) = 0
    /\ candidate["score"] = 20

C29_Witness ==
  /\ Returned
  /\ candidate["verdict"] = <<"s","k","i","p",":","n","o","-","a","n","a","l","y","z","a","b","l","e","-","d","o","c","k","e","r","f","i","l","e","s">>
  /\ candidate["has_compose_build"] = TRUE
  /\ candidate["dockerfile_count"] = 0

\* the one analyzed Dockerfile carries a red flag
OneRedDockerfile ==
  ScorePath /\ Len(analyses) = 1 /\ has_red(analyses[1].flags)

\* C30: with exactly one analyzed Dockerfile that has a red flag the score
\* is at most 55 and the tier is maybe or skip:low-score; a red flag
\* together with a score of 60 or more needs two analyzed Dockerfiles
C30_OneRedDockerfile ==
  /\ OneRedDockerfile =>
       /\ candidate["score"] <= 55
       /\ candidate["verdict"] \in {<<"m","a","y","b","e">>, <<"s","k","i","p",":","l","o","w","-","s","c","o","r","e">>}
  /\ ScorePath /\ has_red(candidate["flags"]) /\ candidate["score"] >= 60 =>
       Len(analyses) >= 2

\* the highest case: a red Dockerfile scoring 60 beside a Compose build
C30_Witness ==
  /\ OneRedDockerfile
  /\ analyses[1].score = 60
  /\ compose.found
  /\ candidate["score"] = 55
  /\ candidate["verdict"] = <<"m","a","y","b","e">>

\* two analyzed Dockerfiles, a red flag and a score of 60 or more
C30_TwoDockerfiles ==
  /\ ScorePath
  /\ Len(analyses) = 2
  /\ has_red(candidate["flags"])
  /\ candidate["score"] >= 60

====
